---- MODULE Spec2Model ----
(***************************************************************************)
(* Model of the Searoutes schedule provider                                *)
(* (backend/app/providers/searoutes.py and backend/app/routes/schedules.py)*)
(*                                                                         *)
(* Text is a sequence of one-character strings.  A Python dict is a        *)
(* function whose DOMAIN is the set of keys that are present.              *)
(***************************************************************************)
EXTENDS Integers, Sequences, FiniteSets, TLC

VARIABLES
    rk_cands,   \* Ranker: the candidate list handed to the ranker
    rk_query,   \* Ranker: the query text
    rk_flag,    \* Ranker: is_locode_query / is_scac_query
    rk_out      \* Ranker: which ranker ran, the tuples it built and its result

rankVars == <<rk_cands, rk_query, rk_flag, rk_out>>

VARIABLES
    mp_data,    \* Itinerary Mapper: the upstream itinerary response
    mp_out      \* Itinerary Mapper: per itinerary outcome and the Schedule list

mapVars == <<mp_data, mp_out>>

VARIABLES
    rq          \* Request Client: the _make_request call in progress

reqVars == <<rq>>

VARIABLES
    now,                \* time.time(), in whole seconds
    carrier_cache,      \* provider._carrier_cache: key -> [result, time]
    call,               \* the call being served: an HTTP request or a direct call
    pc,                 \* the upstream request that call is about to make
    ls_origin_port,        \* list(): origin_port
    ls_destination_port,   \* list(): destination_port
    ls_carrier_scac,       \* list(): carrier_scac
    log,                \* the _make_request calls made for this call, in order
    ret,                \* what list() / resolve_port / resolve_carrier gave back
    http,               \* the HTTP response of the route
    prev,               \* the call served before this one, with its log and result
    calls,              \* number of direct calls made so far
    ticks               \* number of times the clock was advanced between calls

svcVars == <<now, carrier_cache, call, pc, ls_origin_port, ls_destination_port,
             ls_carrier_scac, log, ret, http, prev, calls, ticks>>

vars == <<rankVars, mapVars, reqVars, svcVars>>

(***************************************************************************)
(* Characters                                                              *)
(***************************************************************************)
LowerLetters ==
    <<"a","b","c","d","e","f","g","h","i","j","k","l","m",
      "n","o","p","q","r","s","t","u","v","w","x","y","z">>

UpperLetters ==
    <<"A","B","C","D","E","F","G","H","I","J","K","L","M",
      "N","O","P","Q","R","S","T","U","V","W","X","Y","Z">>

Digits == <<"0","1","2","3","4","5","6","7","8","9">>

LowerSet == {LowerLetters[i] : i \in 1..Len(LowerLetters)}

UpperSet == {UpperLetters[i] : i \in 1..Len(UpperLetters)}

DigitSet == {Digits[i] : i \in 1..Len(Digits)}

\* the non-alphanumeric characters the model's texts use
OtherChars == {"\t", " ", "-", "Á", "á"}

Chars == LowerSet \cup UpperSet \cup DigitSet \cup OtherChars

IsLower(c) == c \in LowerSet

IsUpper(c) == c \in UpperSet

IsDigit(c) == c \in DigitSet

\* [A-Za-z0-9]
IsAlnum(c) == c \in LowerSet \/ c \in UpperSet \/ c \in DigitSet

\* \s of the re module: blank and tab are the two the model uses
IsSpace(c) == c \in {" ", "\t"}

\* Unicode code point, the order Python compares str by
Ord ==
    [c \in Chars |->
        IF c \in DigitSet THEN 47 + (CHOOSE i \in 1..10 : Digits[i] = c)
        ELSE IF c \in UpperSet THEN 64 + (CHOOSE i \in 1..26 : UpperLetters[i] = c)
        ELSE IF c \in LowerSet THEN 96 + (CHOOSE i \in 1..26 : LowerLetters[i] = c)
        ELSE CASE c = "\t" -> 9
               [] c = " " -> 32
               [] c = "-" -> 45
               [] c = "Á" -> 193
               [] c = "á" -> 225]

\* NFKD decomposition followed by dropping the combining marks
StripMark(c) ==
    CASE c = "á" -> "a"
      [] c = "Á" -> "A"
      [] OTHER -> c

ToLower == [c \in UpperSet |-> LowerLetters[Ord[c] - 64]]

ToUpper == [c \in LowerSet |-> UpperLetters[Ord[c] - 96]]

\* str.casefold on one (already decomposed) character
FoldChar(c) == IF c \in UpperSet THEN ToLower[c] ELSE c

\* str.upper on one ASCII character
UpChar(c) == IF c \in LowerSet THEN ToUpper[c] ELSE c

(***************************************************************************)
(* Text helpers                                                            *)
(***************************************************************************)
\* str.startswith
StartsWith(s, p) == Len(p) <= Len(s) /\ SubSeq(s, 1, Len(p)) = p

\* p in s for two str
IsSubstring(p, s) ==
    \E i \in 0..(Len(s) - Len(p)) : SubSeq(s, i + 1, i + Len(p)) = p

\* Python's < on str: lexicographic by code point
RECURSIVE StrLt(_, _)
StrLt(a, b) ==
    IF b = <<>> THEN FALSE
    ELSE IF a = <<>> THEN TRUE
    ELSE IF Head(a) = Head(b) THEN StrLt(Tail(a), Tail(b))
    ELSE Ord[Head(a)] < Ord[Head(b)]

\* re.sub(r"\s+", " ", s)
RECURSIVE CollapseSpace(_)
CollapseSpace(s) ==
    IF s = <<>> THEN <<>>
    ELSE IF IsSpace(Head(s))
         THEN IF Tail(s) # <<>> /\ IsSpace(Head(Tail(s)))
              THEN CollapseSpace(Tail(s))
              ELSE <<" ">> \o CollapseSpace(Tail(s))
         ELSE <<Head(s)>> \o CollapseSpace(Tail(s))

RECURSIVE LStrip(_)
LStrip(s) == IF s # <<>> /\ IsSpace(Head(s)) THEN LStrip(Tail(s)) ELSE s

RECURSIVE RStrip(_)
RStrip(s) ==
    IF s # <<>> /\ IsSpace(s[Len(s)]) THEN RStrip(SubSeq(s, 1, Len(s) - 1)) ELSE s

\* str.strip
Strip(s) == RStrip(LStrip(s))

(***************************************************************************)
(* Normalizer (searoutes.py 18-51)                                         *)
(***************************************************************************)
\* unicodedata.normalize("NFKD", s) without the combining characters
StripMarks(s) == [i \in 1..Len(s) |-> StripMark(s[i])]

\* str.casefold
Casefold(s) == [i \in 1..Len(s) |-> FoldChar(s[i])]

\* str.upper
Upper(s) == [i \in 1..Len(s) |-> UpChar(s[i])]

ascii_norm(s) == Casefold(Strip(CollapseSpace(StripMarks(s))))

RECURSIVE alnum_only(_)
alnum_only(s) ==
    IF s = <<>> THEN <<>>
    ELSE IF IsAlnum(Head(s)) THEN <<Head(s)>> \o alnum_only(Tail(s))
    ELSE alnum_only(Tail(s))

\* _alnum_only(x).upper()
UpperAlnum(s) == Upper(alnum_only(s))

\* re.split(r"[^A-Za-z0-9]+", s) without the empty pieces
RECURSIVE SplitAlnum(_, _)
SplitAlnum(s, cur) ==
    IF s = <<>> THEN (IF cur = <<>> THEN <<>> ELSE <<cur>>)
    ELSE IF IsAlnum(Head(s)) THEN SplitAlnum(Tail(s), Append(cur, Head(s)))
    ELSE (IF cur = <<>> THEN <<>> ELSE <<cur>>) \o SplitAlnum(Tail(s), <<>>)

tokens(s) == SplitAlnum(ascii_norm(s), <<>>)

PORT_NOISE_PREFIXES ==
    << <<"p","o","r","t"," ","o","f"," ">>,
       <<"p","o","r","t","o"," ","d","i"," ">>,
       <<"p","u","e","r","t","o"," ","d","e"," ">>,
       <<"p","u","e","r","t","o"," ","d","e","l"," ">>,
       <<"p","o","r","t"," ">>,
       <<"h","a","r","b","o","r"," ","o","f"," ">>,
       <<"h","a","r","b","o","u","r"," ","o","f"," ">> >>

RECURSIVE StripFrom(_, _)
StripFrom(s, k) ==
    IF k > Len(PORT_NOISE_PREFIXES) THEN s
    ELSE IF StartsWith(s, PORT_NOISE_PREFIXES[k])
         THEN SubSeq(s, Len(PORT_NOISE_PREFIXES[k]) + 1, Len(s))
         ELSE StripFrom(s, k + 1)

\* a name left as it is
strip_port_noise_none(s) == s

strip_port_noise(s) == StripFrom(s, 1)

(***************************************************************************)
(* Field Extractor (searoutes.py 54-119)                                   *)
(***************************************************************************)
\* dict.get(k) for a text field: an absent key reads as the falsy value
Get(p, k) == IF k \in DOMAIN p THEN p[k] ELSE <<>>

\* a loop over the aliases that does not return at its first hit: the last
\* truthy alias wins
RECURSIVE LastTruthy(_, _)
LastTruthy(p, ks) ==
    IF ks = <<>> THEN <<>>
    ELSE IF Get(p, ks[Len(ks)]) # <<>> THEN Get(p, ks[Len(ks)])
    ELSE LastTruthy(p, SubSeq(ks, 1, Len(ks) - 1))

\* first alias, in order, whose value is truthy
RECURSIVE FirstTruthy(_, _)
FirstTruthy(p, ks) ==
    IF ks = <<>> THEN <<>>
    ELSE IF Get(p, Head(ks)) # <<>> THEN Get(p, Head(ks))
    ELSE FirstTruthy(p, Tail(ks))

\* (p.get("attributes") or {}).get(k)
Nested(p, k) == IF "attributes" \in DOMAIN p THEN Get(p["attributes"], k) ELSE <<>>

port_name(p) ==
    LET v == FirstTruthy(p, <<"displayName", "name", "portName", "shortName">>)
    IN  IF v # <<>> THEN v ELSE Nested(p, "name")

port_locode(p) ==
    LET v == FirstTruthy(p, <<"locode", "unLocode", "code", "unlocode">>)
    IN  IF v # <<>> THEN v ELSE Nested(p, "locode")

port_country(p) ==
    FirstTruthy(p, <<"countryCode", "country", "countryName", "country_code">>)

\* size is [n |-> integer] when int() accepts it, [text |-> ...] when it raises
port_size(p) ==
    IF "size" \notin DOMAIN p THEN 0
    ELSE IF "n" \in DOMAIN p["size"] THEN p["size"].n
    ELSE 0

carrier_name(c) ==
    LET v == FirstTruthy(c, <<"displayName", "name", "shortName", "legalName",
                              "carrierName", "companyName">>)
    IN  IF v # <<>> THEN v ELSE Nested(c, "name")

carrier_scac(c) == FirstTruthy(c, <<"scac", "scacCode", "code">>)

carrier_id(c) == FirstTruthy(c, <<"id", "carrierId", "companyId">>)

(***************************************************************************)
(* Ranker (searoutes.py 346-419 and 486-551)                               *)
(***************************************************************************)
\* every query token equals or is a prefix of some name token
TokenContains(qt, nt) ==
    /\ qt # <<>>
    /\ \A i \in 1..Len(qt) : \E j \in 1..Len(nt) : StartsWith(nt[j], qt[i])

\* the boolean features of extract() in _rank_ports
PortFeatures(p, query) ==
    LET q_norm    == ascii_norm(query)
        q_locode  == UpperAlnum(query)
        name_norm == ascii_norm(port_name(p))
        locode_up == UpperAlnum(port_locode(p))
    IN  [exact_code |-> locode_up # <<>> /\ q_locode # <<>> /\ locode_up = q_locode,
         exact_name |-> name_norm # <<>> /\ q_norm # <<>> /\ name_norm = q_norm,
         startswith |-> StartsWith(strip_port_noise(name_norm), q_norm),
         contains   |-> \/ TokenContains(tokens(query), tokens(port_name(p)))
                        \/ IsSubstring(q_norm, name_norm)]

\* the boolean features of extract() in _rank_carriers
CarrierFeatures(c, query) ==
    LET q_norm    == ascii_norm(query)
        q_scac    == UpperAlnum(query)
        name_norm == ascii_norm(carrier_name(c))
        scac_up   == UpperAlnum(carrier_scac(c))
    IN  [exact_code |-> scac_up # <<>> /\ q_scac # <<>> /\ scac_up = q_scac,
         exact_name |-> name_norm # <<>> /\ q_norm # <<>> /\ name_norm = q_norm,
         startswith |-> StartsWith(name_norm, q_norm),
         contains   |-> \/ TokenContains(tokens(query), tokens(carrier_name(c)))
                        \/ IsSubstring(q_norm, name_norm)]

\* a ladder slip: the name-leading branch ranks a code match above contains
ScoreCodeAboveContains(f, is_code_query) ==
    IF is_code_query
    THEN IF f.exact_code THEN 4
         ELSE IF f.exact_name THEN 3
         ELSE IF f.startswith THEN 2
         ELSE IF f.contains THEN 1
         ELSE 0
    ELSE IF f.exact_name THEN 4
         ELSE IF f.startswith THEN 3
         ELSE IF f.exact_code THEN 2
         ELSE IF f.contains THEN 1
         ELSE 0

\* the if/elif ladders shared by both rankers
Score(f, is_code_query) ==
    IF is_code_query
    THEN IF f.exact_code THEN 4
         ELSE IF f.exact_name THEN 3
         ELSE IF f.startswith THEN 2
         ELSE IF f.contains THEN 1
         ELSE 0
    ELSE IF f.exact_name THEN 4
         ELSE IF f.startswith THEN 3
         ELSE IF f.contains THEN 2
         ELSE IF f.exact_code THEN 1
         ELSE 0

\* name_norm or name
SortName(name) == IF ascii_norm(name) # <<>> THEN ascii_norm(name) ELSE name

\* extract() of _rank_ports: the features, the score and the sort tuple
\* (-score, -size_num, name_norm or name); the dict itself, the tuple's last
\* component, is kept beside it by SortFirst
PortExtract(p, query, is_locode_query) ==
    LET f == PortFeatures(p, query)
    IN  [feat  |-> f,
         score |-> Score(f, is_locode_query),
         key   |-> << 0 - Score(f, is_locode_query), 0 - port_size(p),
                      SortName(port_name(p)) >>]

\* extract() of _rank_carriers: (-score, name_norm or name); the constant
\* middle component keeps the two tuples the same shape
CarrierExtract(c, query, is_scac_query) ==
    LET f == CarrierFeatures(c, query)
    IN  [feat  |-> f,
         score |-> Score(f, is_scac_query),
         key   |-> << 0 - Score(f, is_scac_query), 0, SortName(carrier_name(c)) >>]

\* tuple < tuple on the leading components
KeyLt(a, b) ==
    \/ a[1] < b[1]
    \/ a[1] = b[1] /\ a[2] < b[2]
    \/ a[1] = b[1] /\ a[2] = b[2] /\ StrLt(a[3], b[3])

(***************************************************************************)
(* Ranker inputs                                                           *)
(***************************************************************************)
T_Ab == <<"A","b">>

T_PortAb == <<"P","o","r","t"," ","A","b">>

T_Cab == <<"C","a","b">>

T_PortOfPortAb == <<"P","o","r","t"," ","o","f"," ","P","o","r","t"," ","A","b">>

T_CabAccent == <<"C","á","b">>

T_EGALY == <<"E","G","A","L","Y">>

T_eg_aly == <<"e","g","-","a","l","y">>

T_AB == <<"A","B">>

T_Egaly == <<"E","g","a","l","y">>

T_Po == <<"P","o">>

T_EG == <<"E","G">>

\* upstream records; "code" is an alias both extractors know
RankPool ==
    { [name |-> T_Ab, code |-> T_EGALY],
      [name |-> T_Ab, code |-> T_AB],
      [name |-> T_Ab, code |-> T_AB, size |-> [n |-> 2]],
      [name |-> T_PortAb, code |-> T_eg_aly, size |-> [n |-> 2]],
      [name |-> T_PortAb, code |-> T_AB],
      [name |-> T_Cab],
      [name |-> T_CabAccent],
      [name |-> T_Egaly],
      [name |-> T_PortOfPortAb, size |-> [n |-> 2]],
      [name |-> T_Cab, code |-> T_AB, size |-> [n |-> 2]] }

RankQueries == {T_EGALY, T_eg_aly, T_Ab, T_Po, <<>>}

RankInputs == RankPool \X RankQueries \X BOOLEAN

\* the two extract() evaluated once for the inputs above, as <<input, result>>
PortExtractMemo == {<<k, PortExtract(k[1], k[2], k[3])>> : k \in RankInputs}

CarrierExtractMemo == {<<k, CarrierExtract(k[1], k[2], k[3])>> : k \in RankInputs}

PortExtractOf(p, query, is_code_query) ==
    IF <<p, query, is_code_query>> \in RankInputs
    THEN (CHOOSE m \in PortExtractMemo : m[1] = <<p, query, is_code_query>>)[2]
    ELSE PortExtract(p, query, is_code_query)

CarrierExtractOf(c, query, is_code_query) ==
    IF <<c, query, is_code_query>> \in RankInputs
    THEN (CHOOSE m \in CarrierExtractMemo : m[1] = <<c, query, is_code_query>>)[2]
    ELSE CarrierExtract(c, query, is_code_query)

RankEmpty == [kind |-> "empty"]

RankTypeError == [kind |-> "TypeError"]

\* ranked.sort() on the tuples, then ranked[0][-1].  Two tuples that agree on
\* every leading component are ordered by their dicts: equal dicts compare
\* equal, unequal dicts raise TypeError ('<' not supported between dicts).
\* A sort has to order every such pair, so it raises whenever one exists.
\* Otherwise the first of the tuples with the least key is returned.
SortFirst(rows, items) ==
    IF \E i, j \in 1..Len(items) :
           i < j /\ rows[i].key = rows[j].key /\ items[i] # items[j]
    THEN RankTypeError
    ELSE LET best == CHOOSE i \in 1..Len(items) :
                        \A j \in 1..Len(items) :
                            /\ ~KeyLt(rows[j].key, rows[i].key)
                            /\ (j < i => rows[j].key # rows[i].key)
         IN  [kind |-> "ok", value |-> items[best]]

PortRows(ports, query, is_locode_query) ==
    [i \in 1..Len(ports) |-> PortExtractOf(ports[i], query, is_locode_query)]

CarrierRows(carriers, query, is_scac_query) ==
    [i \in 1..Len(carriers) |-> CarrierExtractOf(carriers[i], query, is_scac_query)]

\* a _rank_ports without the "if not ports" guard: ranked[0] of an empty list
rank_ports_unguarded(ports, query, is_locode_query) ==
    IF ports = <<>> THEN [kind |-> "IndexError"]
    ELSE SortFirst(PortRows(ports, query, is_locode_query), ports)

rank_ports(ports, query, is_locode_query) ==
    IF ports = <<>> THEN RankEmpty
    ELSE SortFirst(PortRows(ports, query, is_locode_query), ports)

rank_carriers(carriers, query, is_scac_query) ==
    IF carriers = <<>> THEN RankEmpty
    ELSE SortFirst(CarrierRows(carriers, query, is_scac_query), carriers)

MaxCands == 3

SeqsUpTo(S, n) == UNION {[1..k -> S] : k \in 0..n}

NotRun == [fn |-> "none"]

ReqIdle == rq = [fn |-> "none"]

EmptyCache == [k \in {} |-> NotRun]

\* no call was served before
NoPrev == [call |-> NotRun, log |-> <<>>, ret |-> NotRun]

\* a provider just constructed, serving nothing
SvcIdle ==
    /\ now = 0
    /\ carrier_cache = EmptyCache
    /\ call = NotRun
    /\ pc = "idle"
    /\ ls_origin_port = [none |-> TRUE]
    /\ ls_destination_port = [none |-> TRUE]
    /\ ls_carrier_scac = <<>>
    /\ log = <<>>
    /\ ret = NotRun
    /\ http = NotRun
    /\ prev = NoPrev
    /\ calls = 0
    /\ ticks = 0

RankIdle ==
    /\ rk_cands = <<>>
    /\ rk_query = <<>>
    /\ rk_flag = FALSE
    /\ rk_out = NotRun

MapIdle ==
    /\ mp_data = [shape |-> "list", items |-> <<>>]
    /\ mp_out = NotRun

RankInit ==
    /\ MapIdle
    /\ ReqIdle
    /\ SvcIdle
    /\ rk_cands \in SeqsUpTo(RankPool, MaxCands)
    /\ rk_query \in RankQueries
    /\ rk_flag \in BOOLEAN
    /\ rk_out = NotRun

\* provider._rank_ports(rk_cands, rk_query, rk_flag)
RankPorts ==
    /\ rk_out = NotRun
    /\ rk_out' = [fn |-> "ports",
                  rows |-> PortRows(rk_cands, rk_query, rk_flag),
                  res |-> rank_ports(rk_cands, rk_query, rk_flag)]
    /\ UNCHANGED <<rk_cands, rk_query, rk_flag, mapVars, reqVars, svcVars>>

\* provider._rank_carriers(rk_cands, rk_query, rk_flag)
RankCarriers ==
    /\ rk_out = NotRun
    /\ rk_out' = [fn |-> "carriers",
                  rows |-> CarrierRows(rk_cands, rk_query, rk_flag),
                  res |-> rank_carriers(rk_cands, rk_query, rk_flag)]
    /\ UNCHANGED <<rk_cands, rk_query, rk_flag, mapVars, reqVars, svcVars>>

RankNext == RankPorts \/ RankCarriers

SpecRank == RankInit /\ [][RankNext]_vars

(***************************************************************************)
(* Field Extractor inputs: one upstream record whose keys are drawn from   *)
(* the aliases of one canonical field, each key with a text of its own,    *)
(* at most one of them with an empty value                                 *)
(***************************************************************************)
AliasGroups ==
    { <<"displayName", "name", "portName", "shortName", "attributes">>,
      <<"locode", "unLocode", "code", "unlocode", "attributes">>,
      <<"countryCode", "country", "countryName", "country_code">>,
      <<"displayName", "name", "shortName", "legalName", "carrierName", "companyName",
        "attributes">>,
      <<"scac", "scacCode", "code">>,
      <<"id", "carrierId", "companyId">> }

AliasTexts == <<T_Ab, T_Cab, T_Po, T_EG, T_AB, T_EGALY, T_Egaly>>

\* the record with the keys S of the group g, those in E empty
AliasRecord(g, S, E) ==
    [k \in {g[i] : i \in S} |->
        LET i == CHOOSE i \in S : g[i] = k
            v == IF i \in E THEN <<>> ELSE AliasTexts[i]
        IN  IF k = "attributes" THEN [name |-> v, locode |-> v] ELSE v]

SizeRecords ==
    { [name |-> T_Ab],
      [name |-> T_Ab, size |-> [n |-> 0]],
      [name |-> T_Ab, size |-> [n |-> 2]],
      [name |-> T_Ab, size |-> [text |-> T_Po]] }

ExtractPool ==
    { AliasRecord(x[1], x[2], x[3]) :
        x \in { y \in UNION { {g} \X (SUBSET (1..Len(g))) \X (SUBSET (1..Len(g))) : g \in AliasGroups } :
                    y[3] \subseteq y[2] /\ Cardinality(y[3]) <= 1 } }
    \cup SizeRecords

ExtractInit ==
    /\ MapIdle
    /\ ReqIdle
    /\ SvcIdle
    /\ \E r \in ExtractPool : rk_cands = <<r>>
    /\ rk_query = <<>>
    /\ rk_flag = FALSE
    /\ rk_out = NotRun

\* _port_name, _port_locode, _port_country and _port_size of the record
ExtractPort ==
    /\ rk_out = NotRun
    /\ rk_out' = [fn |-> "port_fields",
                  name |-> port_name(rk_cands[1]),
                  locode |-> port_locode(rk_cands[1]),
                  country |-> port_country(rk_cands[1]),
                  size |-> port_size(rk_cands[1])]
    /\ UNCHANGED <<rk_cands, rk_query, rk_flag, mapVars, reqVars, svcVars>>

\* _carrier_name, _carrier_scac and _carrier_id of the record
ExtractCarrier ==
    /\ rk_out = NotRun
    /\ rk_out' = [fn |-> "carrier_fields",
                  name |-> carrier_name(rk_cands[1]),
                  scac |-> carrier_scac(rk_cands[1]),
                  id |-> carrier_id(rk_cands[1])]
    /\ UNCHANGED <<rk_cands, rk_query, rk_flag, mapVars, reqVars, svcVars>>

ExtractNext == ExtractPort \/ ExtractCarrier

SpecExtract == ExtractInit /\ [][ExtractNext]_vars

(***************************************************************************)
(* Itinerary Mapper (searoutes.py 633-779)                                 *)
(*                                                                         *)
(* A timestamp text is [d, h, tz]: day d, hour h of one month, written     *)
(* with the suffix tz ("Z", "+00:00" or none); [junk |-> ...] is a text    *)
(* datetime.fromisoformat rejects.  A transitDays value is [n |-> int] or  *)
(* [text |-> ...], a value the int field of the pydantic models rejects.   *)
(***************************************************************************)
NoTs == [none |-> TRUE]

NoTd == [none |-> TRUE]

NoLegs == [none |-> TRUE]

NoPort == [none |-> TRUE]

\* str(uuid4()): some fresh identifier text
Uuid4 == <<"u","u","i","d","4">>

\* dict.get(k) of a timestamp field
TsGet(r, k) == IF k \in DOMAIN r THEN r[k] ELSE NoTs

\* a or b or c over timestamp fields
RECURSIVE FirstTs(_, _)
FirstTs(r, ks) ==
    IF ks = <<>> THEN NoTs
    ELSE IF TsGet(r, Head(ks)) # NoTs THEN TsGet(r, Head(ks))
    ELSE FirstTs(r, Tail(ks))

\* a or b or "" over text fields
RECURSIVE FirstText(_, _)
FirstText(r, ks) ==
    IF ks = <<>> THEN <<>>
    ELSE IF Get(r, Head(ks)) # <<>> THEN Get(r, Head(ks))
    ELSE FirstText(r, Tail(ks))

\* a JSON value that is not an object has no .get
IsDict(x) == "notdict" \notin DOMAIN x

\* datetime.fromisoformat(ts.replace("Z", "+00:00")) succeeds
Parses(ts) == "d" \in DOMAIN ts

\* the parsed datetime carries a UTC offset
Aware(ts) == ts.tz # ""

\* seconds since the start of the month
Seconds(ts) == ts.d * 86400 + ts.h * 3600

\* a division that rounds down
FloorDiv(a, b) == a \div b

\* math.ceil(a / b) for b > 0
CeilDiv(a, b) == 0 - ((0 - a) \div b)

\* the try/except around the two fromisoformat calls and the subtraction:
\* an unparsable text, or subtracting a naive from an aware datetime, raises
\* and gives 0
TransitFrom(etd, eta) ==
    IF Parses(etd) /\ Parses(eta) /\ Aware(etd) = Aware(eta)
    THEN [n |-> CeilDiv(Seconds(eta) - Seconds(etd), 86400)]
    ELSE [n |-> 0]

\* not v, for a transitDays value
TdFalsy(v) == v = NoTd \/ v = [n |-> 0]

\* the int field of ScheduleLeg / Schedule accepts the value
TdValid(v) == "n" \in DOMAIN v

LegsData(it) ==
    IF "legs" \in DOMAIN it /\ it.legs # <<>> THEN it.legs
    ELSE IF "route" \in DOMAIN it /\ it.route # <<>> THEN it.route
    ELSE IF "segments" \in DOMAIN it /\ it.segments # <<>> THEN it.segments
    ELSE <<>>

LegEtd(leg) == FirstTs(leg, <<"departure", "etd", "departureTime">>)

LegEta(leg) == FirstTs(leg, <<"arrival", "eta", "arrivalTime">>)

\* one pass of the "for i, leg in enumerate(legs_data)" body: the ScheduleLeg,
\* or [failed |-> TRUE] when the body raises and the leg is skipped
MapLeg(leg, i, vessel, voyage) ==
    IF ~IsDict(leg) THEN [failed |-> TRUE]
    ELSE LET leg_etd == LegEtd(leg)
             leg_eta == LegEta(leg)
             given   == IF "transitDays" \in DOMAIN leg THEN leg.transitDays ELSE [n |-> 0]
             transit == IF TdFalsy(given) /\ leg_etd # NoTs /\ leg_eta # NoTs
                        THEN TransitFrom(leg_etd, leg_eta)
                        ELSE given
         IN  IF ~TdValid(transit) THEN [failed |-> TRUE]
             ELSE [legNumber   |-> i,
                   fromLocode  |-> FirstText(leg, <<"fromLocode", "originLocode">>),
                   fromPort    |-> FirstText(leg, <<"fromPort", "originPort">>),
                   toLocode    |-> FirstText(leg, <<"toLocode", "destinationLocode">>),
                   toPort      |-> FirstText(leg, <<"toPort", "destinationPort">>),
                   etd         |-> leg_etd,
                   eta         |-> leg_eta,
                   vessel      |-> IF FirstText(leg, <<"vessel", "vesselName">>) # <<>>
                                   THEN FirstText(leg, <<"vessel", "vesselName">>)
                                   ELSE vessel,
                   voyage      |-> IF FirstText(leg, <<"voyage", "voyageNumber">>) # <<>>
                                   THEN FirstText(leg, <<"voyage", "voyageNumber">>)
                                   ELSE voyage,
                   transitDays |-> transit.n]

\* mapped_legs: the legs whose body did not raise, in order
RECURSIVE MappedLegs(_, _, _, _)
MappedLegs(legs, i, vessel, voyage) ==
    IF i > Len(legs) THEN <<>>
    ELSE LET m == MapLeg(legs[i], i, vessel, voyage)
         IN  IF "failed" \in DOMAIN m THEN MappedLegs(legs, i + 1, vessel, voyage)
             ELSE <<m>> \o MappedLegs(legs, i + 1, vessel, voyage)

\* "{name}, {country}"
PortLabel(port) == port.name \o <<",", " ">> \o port.country

MapNone == [kind |-> "none"]

MapRaised == [kind |-> "raised"]

\* _map_single_itinerary: a Schedule, None, or an exception
map_single_itinerary(it, origin_port, destination_port) ==
    IF ~IsDict(it) THEN MapRaised
    ELSE LET legs_data == LegsData(it)
         IN
         IF legs_data = <<>> THEN MapNone
         ELSE LET first_leg == legs_data[1]
                  last_leg  == legs_data[Len(legs_data)]
              IN
              IF ~IsDict(first_leg) \/ ~IsDict(last_leg) THEN MapRaised
              ELSE LET etd == LegEtd(first_leg)
                       eta == LegEta(last_leg)
                       given   == IF "transitDays" \in DOMAIN it THEN it.transitDays ELSE NoTd
                       transit == IF TdFalsy(given) THEN TransitFrom(etd, eta) ELSE given
                       vessel  == IF FirstText(first_leg, <<"vessel", "vesselName">>) # <<>>
                                  THEN FirstText(first_leg, <<"vessel", "vesselName">>)
                                  ELSE Get(it, "vessel")
                       voyage  == IF FirstText(first_leg, <<"voyage", "voyageNumber">>) # <<>>
                                  THEN FirstText(first_leg, <<"voyage", "voyageNumber">>)
                                  ELSE Get(it, "voyage")
                       carrier == IF FirstText(first_leg, <<"carrier", "carrierName">>) # <<>>
                                  THEN FirstText(first_leg, <<"carrier", "carrierName">>)
                                  ELSE Get(it, "carrier")
                       mapped  == MappedLegs(legs_data, 1, vessel, voyage)
                   IN
                   IF etd = NoTs \/ eta = NoTs THEN MapNone
                   ELSE IF ~TdValid(transit) THEN MapRaised
                   ELSE [kind |-> "schedule",
                         s |-> [id          |-> IF Get(it, "id") # <<>>
                                                THEN Get(it, "id") ELSE Uuid4,
                                origin      |-> IF origin_port # NoPort
                                                THEN PortLabel(origin_port)
                                                ELSE Get(first_leg, "fromPort"),
                                destination |-> IF destination_port # NoPort
                                                THEN PortLabel(destination_port)
                                                ELSE Get(last_leg, "toPort"),
                                etd         |-> etd,
                                eta         |-> eta,
                                vessel      |-> vessel,
                                voyage      |-> voyage,
                                routingType |-> IF Len(legs_data) = 1
                                                THEN "Direct" ELSE "Transshipment",
                                transitDays |-> transit.n,
                                carrier     |-> carrier,
                                service     |-> FirstText(it, <<"service", "serviceName">>),
                                legs        |-> IF Len(mapped) > 1 THEN mapped ELSE NoLegs]]

\* the itinerary list inside the response envelope
Itineraries(data) ==
    IF data.shape = "list" THEN data.items
    ELSE IF "results" \in DOMAIN data.d THEN data.d.results
    ELSE IF "itineraries" \in DOMAIN data.d THEN data.d.itineraries
    ELSE IF "data" \in DOMAIN data.d THEN data.d.data
    ELSE <<>>

\* the outcome of _map_single_itinerary for every itinerary of the response
MapOutcomes(data, origin_port, destination_port) ==
    [i \in 1..Len(Itineraries(data)) |->
        map_single_itinerary(Itineraries(data)[i], origin_port, destination_port)]

\* a loop without the try/except: the first exception ends the batch
RECURSIVE AppendedUntilRaise(_, _)
AppendedUntilRaise(outs, i) ==
    IF i > Len(outs) \/ outs[i].kind = "raised" THEN <<>>
    ELSE IF outs[i].kind = "schedule" THEN <<outs[i].s>> \o AppendedUntilRaise(outs, i + 1)
    ELSE AppendedUntilRaise(outs, i + 1)

\* the schedules the loop appends, in input order
RECURSIVE Appended(_, _)
Appended(outs, i) ==
    IF i > Len(outs) THEN <<>>
    ELSE IF outs[i].kind = "schedule" THEN <<outs[i].s>> \o Appended(outs, i + 1)
    ELSE Appended(outs, i + 1)

map_itineraries_to_schedules(data, origin_port, destination_port) ==
    Appended(MapOutcomes(data, origin_port, destination_port), 1)

(***************************************************************************)
(* Itinerary Mapper inputs                                                 *)
(***************************************************************************)
MaxLegs == 3

MaxItins == 2

Ts_20_00 == [d |-> 20, h |-> 0, tz |-> "Z"]

Ts_22_12 == [d |-> 22, h |-> 12, tz |-> "Z"]

Ts_23_00_naive == [d |-> 23, h |-> 0, tz |-> ""]

Ts_junk == [junk |-> TRUE]

Port_A == [name |-> T_Ab, locode |-> T_EGALY, country |-> T_EG]

Leg_Good == [departure |-> Ts_20_00, arrival |-> Ts_22_12, fromPort |-> T_Ab, toPort |-> T_Cab]

\* a transitDays the ScheduleLeg model rejects
Leg_BadTransit == [departure |-> Ts_20_00, arrival |-> Ts_22_12, transitDays |-> [text |-> T_Po]]

\* a JSON null or string where a leg object is expected
Leg_NotDict == [notdict |-> TRUE]

LegPool == {Leg_Good, Leg_BadTransit, Leg_NotDict}

\* itineraries picked for the cases of the mapper
PickedItins ==
         { [segments |-> <<[etd |-> Ts_22_12, eta |-> Ts_23_00_naive, vessel |-> T_AB]>>,
            transitDays |-> [n |-> 7]],
           [route |-> <<Leg_Good,
                        [departureTime |-> Ts_22_12, arrivalTime |-> Ts_junk,
                         transitDays |-> [n |-> 4]]>>],
           [legs |-> <<[departure |-> Ts_22_12]>>],
           [legs |-> <<Leg_Good>>, transitDays |-> [text |-> T_Po]],
           [legs |-> <<[departure |-> Ts_22_12, arrival |-> Ts_20_00]>>, id |-> T_AB],
           [legs |-> <<[departure |-> Ts_22_12, arrival |-> Ts_23_00_naive]>>,
            transitDays |-> [n |-> 0]],
           [legs |-> <<Leg_Good, Leg_Good>>, transitDays |-> [n |-> 0]],
           [legs |-> <<Leg_Good, [departure |-> Ts_22_12], Leg_Good>>],
           [legs |-> <<Leg_Good, Leg_BadTransit, Leg_Good>>],
           [legs |-> <<Leg_Good>>],
           [notdict |-> TRUE] }

\* every sequence of legs up to MaxLegs, and the picked itineraries
ItinPool == {[legs |-> l] : l \in SeqsUpTo(LegPool, MaxLegs)} \cup PickedItins

MapShapes == {"list", "results", "itineraries", "data", "other"}

\* the response body of the given envelope shape around the itineraries
Envelope(shape, items) ==
    CASE shape = "list"        -> [shape |-> "list", items |-> items]
      [] shape = "results"     -> [shape |-> "dict", d |-> [results |-> items]]
      [] shape = "itineraries" -> [shape |-> "dict", d |-> [itineraries |-> items]]
      [] shape = "data"        -> [shape |-> "dict", d |-> [data |-> items]]
      [] shape = "other"       -> [shape |-> "dict", d |-> [message |-> items]]

\* a response of up to MaxItins itineraries: picked ones, one of them replaced
\* by any itinerary of the pool
MapInit ==
    /\ RankIdle
    /\ ReqIdle
    /\ SvcIdle
    /\ \E shape \in MapShapes, batch \in SeqsUpTo(PickedItins, MaxItins),
          p \in 1..MaxItins, it \in ItinPool :
           LET items == IF p <= Len(batch) THEN [batch EXCEPT ![p] = it] ELSE batch
           IN  /\ shape # "list" => Len(items) <= 1
               /\ mp_data = Envelope(shape, items)
    /\ mp_out = NotRun

\* provider._map_itineraries_to_schedules(mp_data, None, None)
MapBatch ==
    /\ mp_out = NotRun
    /\ mp_out' = [fn |-> "map",
                  port |-> NoPort,
                  outcomes |-> MapOutcomes(mp_data, NoPort, NoPort),
                  schedules |-> map_itineraries_to_schedules(mp_data, NoPort, NoPort)]
    /\ UNCHANGED <<mp_data, rankVars, reqVars, svcVars>>

\* provider._map_itineraries_to_schedules(mp_data, origin_port, destination_port)
\* with both ports resolved
MapBatchResolved ==
    /\ mp_out = NotRun
    /\ mp_out' = [fn |-> "map",
                  port |-> Port_A,
                  outcomes |-> MapOutcomes(mp_data, Port_A, Port_A),
                  schedules |-> map_itineraries_to_schedules(mp_data, Port_A, Port_A)]
    /\ UNCHANGED <<mp_data, rankVars, reqVars, svcVars>>

MapNext == MapBatch \/ MapBatchResolved

SpecMap == MapInit /\ [][MapNext]_vars

(***************************************************************************)
(* Request Client (searoutes.py 122-151 and 184-279)                       *)
(*                                                                         *)
(* What client.get gives back is a reply: [kind |-> "response", status,    *)
(* headers, body], or [kind |-> "RequestError"] when httpx raises.  A JSON *)
(* body is [shape |-> "list", items], [shape |-> "dict", d], or            *)
(* [shape |-> "notjson"] when response.json() raises.  None and "" are     *)
(* both written <<>>: the code only tests them for truth.                  *)
(***************************************************************************)
\* the default of the max_retries parameter; no caller passes another
max_retries == 3

NoHeaders == [h \in {} |-> <<>>]

\* response.headers.get(k)
HeaderGet(headers, k) == IF k \in DOMAIN headers THEN headers[k] ELSE <<>>

\* str.isdigit
IsDigits(s) == s # <<>> /\ \A i \in 1..Len(s) : IsDigit(s[i])

\* int(s) of a text of digits
RECURSIVE ToInt(_)
ToInt(s) ==
    IF s = <<>> THEN 0
    ELSE 10 * ToInt(SubSeq(s, 1, Len(s) - 1)) + (Ord[s[Len(s)]] - 48)

\* str(n) of a natural number
RECURSIVE DigitsOf(_)
DigitsOf(n) ==
    IF n < 10 THEN <<Digits[n + 1]>>
    ELSE DigitsOf(n \div 10) \o <<Digits[(n % 10) + 1]>>

T_RATE_LIMIT_EXCEEDED ==
    <<"R","A","T","E","_","L","I","M","I","T","_","E","X","C","E","E","D","E","D">>

T_HTTP_ == <<"H","T","T","P","_">>

T_SEAROUTES_ERROR ==
    <<"S","E","A","R","O","U","T","E","S","_","E","R","R","O","R">>

\* SearoutesRateLimitError(message, request_id)
SearoutesRateLimitError(request_id) ==
    [kind |-> "exc", type |-> "SearoutesRateLimitError", status |-> 429,
     code |-> T_RATE_LIMIT_EXCEEDED,
     message |-> [rate_limit_after |-> max_retries], request_id |-> request_id]

\* an API error whose code does not carry the status
SearoutesAPIErrorNoStatus(status_code, message, request_id) ==
    [kind |-> "exc", type |-> "SearoutesAPIError", status |-> 0,
     code |-> T_HTTP_, message |-> message, request_id |-> request_id]

\* SearoutesAPIError(status_code, message, request_id)
SearoutesAPIError(status_code, message, request_id) ==
    [kind |-> "exc", type |-> "SearoutesAPIError", status |-> status_code,
     code |-> T_HTTP_ \o DigitsOf(status_code),
     message |-> message, request_id |-> request_id]

\* SearoutesError(message): code and request_id stay None
SearoutesError(message) ==
    [kind |-> "exc", type |-> "SearoutesError", status |-> 0,
     code |-> <<>>, message |-> message, request_id |-> <<>>]

\* SearoutesError.to_dict() without the message
to_dict(e) ==
    [code |-> IF e.code # <<>> THEN e.code ELSE T_SEAROUTES_ERROR,
     request_id |-> e.request_id]

\* a or b or c over the text fields of a JSON object
BodyText(response, ks) ==
    IF response.body.shape = "dict" THEN FirstText(response.body.d, ks) ELSE <<>>

\* a request id looked for in the body only
extract_request_id_body_only(response) ==
    BodyText(response, <<"requestId", "request_id", "correlationId">>)

extract_request_id(response) ==
    LET h == FirstText(response.headers,
                       <<"x-request-id", "request-id", "x-correlation-id", "correlation-id">>)
    IN  IF h # <<>> THEN h
        ELSE BodyText(response, <<"requestId", "request_id", "correlationId">>)

\* the upstream text, or the "HTTP {status}: {reason}" fallback
extract_error_message(response) ==
    LET m == BodyText(response, <<"message", "error", "detail", "error_description">>)
    IN  IF m # <<>> THEN [text |-> m] ELSE [http_status |-> response.status]

\* 2 ** attempt
RECURSIVE Pow2(_)
Pow2(n) == IF n = 0 THEN 1 ELSE 2 * Pow2(n - 1)

\* (2**attempt) + random.uniform(0, 1): whole seconds plus a jitter
Backoff(attempt) == [whole |-> Pow2(attempt), jitter |-> TRUE]

\* a delay after a 429 that does not look at the retry-after header
RetryAfterIgnored(response, attempt) == Backoff(attempt)

\* the delay slept after a 429
RetryAfterDelay(response, attempt) ==
    LET retry_after == HeaderGet(response.headers, "retry-after")
    IN  IF retry_after # <<>> /\ IsDigits(retry_after)
        THEN [whole |-> ToInt(retry_after), jitter |-> FALSE]
        ELSE Backoff(attempt)

Pending == [kind |-> "pending"]

\* the locals of _make_request before the first pass of its loop; calls counts
\* the client.get calls, slept lists the delays, seen the replies received
RequestStart ==
    [fn |-> "make_request", attempt |-> 0, calls |-> 0, slept |-> <<>>,
     seen |-> <<>>, out |-> Pending]

\* a retry that starts the loop over after its sleep
ContinueFromStart(st, delay) == [RequestStart EXCEPT !.slept = <<delay>>]

\* "time.sleep(delay); continue": the next pass of range(max_retries + 1),
\* or the raise below the loop when the range is used up
Continue(st, delay) ==
    LET slept == [st EXCEPT !.slept = Append(@, delay), !.attempt = @ + 1]
    IN  IF st.attempt + 1 < max_retries + 1 THEN slept
        ELSE [slept EXCEPT !.out = SearoutesError([network_after |-> max_retries])]

\* a guard that also retries on the last pass of the loop
MayRetryOnLast(attempt) == attempt <= max_retries

\* "if attempt < max_retries": the guard of every sleep-and-continue
MayRetry(attempt) == attempt < max_retries

\* one pass of the loop body of _make_request, given the reply to client.get
RequestStep(st, reply) ==
    LET got == [st EXCEPT !.calls = @ + 1, !.seen = Append(@, reply)]
        attempt == st.attempt
    IN  IF reply.kind = "RequestError"
        THEN IF MayRetry(attempt) THEN Continue(got, Backoff(attempt))
             ELSE [got EXCEPT !.out = SearoutesError([network_after |-> max_retries])]
        ELSE IF reply.status = 429
        THEN IF MayRetry(attempt)
             THEN Continue(got, RetryAfterDelay(reply, attempt))
             ELSE [got EXCEPT !.out = SearoutesRateLimitError(extract_request_id(reply))]
        ELSE IF reply.status >= 400
        THEN IF reply.status >= 500 /\ MayRetry(attempt)
             THEN Continue(got, Backoff(attempt))
             ELSE [got EXCEPT !.out = SearoutesAPIError(reply.status,
                                                      extract_error_message(reply),
                                                      extract_request_id(reply))]
        ELSE [got EXCEPT !.out = [kind |-> "response", body |-> reply.body]]

(***************************************************************************)
(* Request Client inputs                                                   *)
(***************************************************************************)
T_2 == <<"2">>

T_minus1 == <<"-", "1">>

EmptyList == [shape |-> "list", items |-> <<>>]

Reply(status, headers, body) ==
    [kind |-> "response", status |-> status, headers |-> headers, body |-> body]

T_3110 == <<"3","1","1","0">>

T_1071 == <<"1","0","7","1">>

T_1072 == <<"1","0","7","2">>

T_1110 == <<"1","1","1","0">>

T_9999 == <<"9","9","9","9">>

Replies ==
    { Reply(200, NoHeaders, EmptyList),
      Reply(429, "retry-after" :> T_2, EmptyList),
      Reply(429, "retry-after" :> <<"1", "0">>, [shape |-> "notjson"]),
      Reply(429, "retry-after" :> T_minus1, [shape |-> "dict", d |-> [requestId |-> T_AB]]),
      Reply(429, NoHeaders, [shape |-> "notjson"]),
      Reply(400, "x-request-id" :> T_Ab, [shape |-> "dict", d |-> [message |-> T_Po]]),
      Reply(404, NoHeaders, [shape |-> "notjson"]),
      Reply(403, "correlation-id" :> T_Cab,
            [shape |-> "dict", d |-> [request_id |-> T_AB, detail |-> T_Po]]),
      Reply(422, NoHeaders,
            [shape |-> "dict", d |-> [correlationId |-> T_Ab, error_description |-> T_Po]]),
      Reply(500, NoHeaders, [shape |-> "dict", d |-> [error |-> T_Po]]),
      [kind |-> "RequestError"] }
    \cup { Reply(400, NoHeaders, [shape |-> "dict", d |-> [code |-> c, message |-> T_Po]]) :
              c \in {T_3110, T_1071, T_1072, T_1110, T_9999} }

RequestInit ==
    /\ RankIdle
    /\ MapIdle
    /\ SvcIdle
    /\ rq = RequestStart

\* one pass of the loop: client.get(endpoint, params) and what follows it
Attempt ==
    /\ rq.fn = "make_request"
    /\ rq.out = Pending
    /\ \E reply \in Replies : rq' = RequestStep(rq, reply)
    /\ UNCHANGED <<rankVars, mapVars, svcVars>>

RequestNext == Attempt

SpecRequest == RequestInit /\ [][RequestNext]_vars

\* the loop is sequential code: once client.get has answered (the client is
\* built with a timeout) or time.sleep is over, the next pass runs
SpecRequestLive == RequestInit /\ [][RequestNext]_vars /\ WF_vars(Attempt)

(***************************************************************************)
(* Resolvers (searoutes.py 281-344 and 421-484)                            *)
(*                                                                         *)
(* A resolver makes its upstream request through _make_request; the        *)
(* replies the upstream gives to the successive client.get calls of one    *)
(* request are a run.                                                      *)
(***************************************************************************)
RECURSIVE RunRequest(_, _)
RunRequest(st, run) ==
    IF run = <<>> \/ st.out # Pending THEN st
    ELSE RunRequest(RequestStep(st, Head(run)), Tail(run))

\* _make_request(endpoint, params) against an upstream that answers with run
make_request(run) == RunRequest(RequestStart, run)

\* whole seconds spent in time.sleep by one _make_request
RECURSIVE Elapsed(_)
Elapsed(slept) == IF slept = <<>> THEN 0 ELSE Head(slept).whole + Elapsed(Tail(slept))

\* the entry the log keeps of one _make_request
LogEntry(stage, endpoint, params, st) ==
    [stage |-> stage, endpoint |-> endpoint, params |-> params,
     calls |-> st.calls, seen |-> st.seen, out |-> st.out]

ValueError == [kind |-> "exc", type |-> "ValueError", status |-> 0, code |-> <<>>,
               message |-> [not_found |-> TRUE], request_id |-> <<>>]

TypeError == [kind |-> "exc", type |-> "TypeError", status |-> 0, code |-> <<>>,
              message |-> [unordered |-> TRUE], request_id |-> <<>>]

\* isinstance(e, SearoutesError)
IsSearoutesError(e) ==
    e.type \in {"SearoutesError", "SearoutesRateLimitError", "SearoutesAPIError"}

\* a pattern of five letters, ^[A-Z]{5}$
IsLocodeQueryLettersOnly(clean_q) ==
    /\ Len(clean_q) = 5
    /\ \A i \in 1..5 : IsUpper(clean_q[i])

\* ^[A-Z]{2}[A-Z0-9]{3}$
IsLocodeQuery(clean_q) ==
    /\ Len(clean_q) = 5
    /\ \A i \in 1..2 : IsUpper(clean_q[i])
    /\ \A i \in 3..5 : IsUpper(clean_q[i]) \/ IsDigit(clean_q[i])

\* ^[A-Z0-9]{2,4}$
IsScacQuery(clean_q) ==
    /\ Len(clean_q) \in 2..4
    /\ \A i \in 1..Len(clean_q) : IsUpper(clean_q[i]) \/ IsDigit(clean_q[i])

\* the params of the first port search
PortParams(port_query) ==
    IF IsLocodeQuery(UpperAlnum(port_query))
    THEN [locode |-> UpperAlnum(port_query)]
    ELSE [query |-> port_query]

PortSingleKeys == {"name", "portName", "locode", "unLocode"}

CarrierSingleKeys == {"name", "carrierName", "scac"}

\* the candidate list of a search response: a bare array, an object with
\* "results", or one bare object that has one of the single_keys
SearchResults(data, single_keys) ==
    IF data.shape = "list" THEN data.items
    ELSE IF data.shape = "dict" /\ "results" \in DOMAIN data.d THEN data.d.results
    ELSE IF data.shape = "dict" /\ DOMAIN data.d \cap single_keys # {} THEN <<data.d>>
    ELSE <<>>

\* the candidate list of the fallback response: a bare array or "results"
FallbackResults(data2) ==
    IF data2.shape = "list" THEN data2.items
    ELSE IF data2.shape = "dict" /\ "results" \in DOMAIN data2.d THEN data2.d.results
    ELSE <<>>

\* resolve_port from "if not ports_list: raise" to its return
PortFinish(ports_list, port_query, is_locode_query) ==
    IF ports_list = <<>> THEN ValueError
    ELSE LET best == rank_ports(ports_list, port_query, is_locode_query)
         IN  IF best.kind = "TypeError" THEN TypeError
             ELSE [kind |-> "ok",
                   value |-> [name    |-> port_name(best.value),
                              locode  |-> port_locode(best.value),
                              country |-> port_country(best.value)]]

\* resolve_carrier from "if not carriers: raise" to the result it builds
CarrierFinish(carriers, scac_or_name, is_scac_query) ==
    IF carriers = <<>> THEN ValueError
    ELSE LET best == rank_carriers(carriers, scac_or_name, is_scac_query)
         IN  IF best.kind = "TypeError" THEN TypeError
             ELSE [kind |-> "ok",
                   value |-> [name |-> carrier_name(best.value),
                              scac |-> carrier_scac(best.value),
                              id   |-> carrier_id(best.value)]]

\* a cache test that keeps an entry one second longer
CacheFreshInclusive(current_time, cached_time) == current_time - cached_time <= 300

\* "if current_time - cached_time < 300"
CacheFresh(current_time, cached_time) == current_time - cached_time < 300

NoEntry == [none |-> TRUE]

\* the cache entry under the key, if there is one
CacheEntry(cache, cache_key) ==
    IF cache_key \in DOMAIN cache THEN cache[cache_key] ELSE NoEntry

\* an expiry branch that forgets the del
CacheWithoutNothing(cache, cache_key) == cache

\* del self._carrier_cache[cache_key], when the key is there
CacheWithout(cache, cache_key) ==
    [k \in DOMAIN cache \ {cache_key} |-> cache[k]]

\* self._carrier_cache[cache_key] = (result, current_time)
CachePut(cache, cache_key, result, current_time) ==
    [k \in DOMAIN cache \cup {cache_key} |->
        IF k = cache_key THEN [result |-> result, time |-> current_time] ELSE cache[k]]

(***************************************************************************)
(* list() after the itinerary fetch (searoutes.py 593-624 and 781-802)     *)
(***************************************************************************)
EmptyParams == [k \in {} |-> <<>>]

\* params[key] = value when cond holds
WithParam(params, cond, key, value) ==
    IF cond THEN [k \in DOMAIN params \cup {key} |-> IF k = key THEN value ELSE params[k]]
    ELSE params

\* the params of the itinerary fetch
FetchParams(flt, from_port, to_port, scac) ==
    LET p1 == WithParam(EmptyParams, from_port # NoPort, "fromLocode",
                        IF from_port # NoPort THEN from_port.locode ELSE <<>>)
        p2 == WithParam(p1, to_port # NoPort, "toLocode",
                        IF to_port # NoPort THEN to_port.locode ELSE <<>>)
        p3 == WithParam(p2, scac # <<>>, "carrierScac", scac)
        p4 == WithParam(p3, flt.date_from # <<>>, "fromDate", flt.date_from)
    IN  WithParam(p4, flt.date_to # <<>>, "toDate", flt.date_to)

T_direct == <<"d","i","r","e","c","t">>

T_transshipment == <<"t","r","a","n","s","s","h","i","p","m","e","n","t">>

\* s.routingType.lower()
RoutingLower(routingType) == IF routingType = "Direct" THEN T_direct ELSE T_transshipment

\* _apply_filters: the equipment branch passes everything through
RECURSIVE apply_filters(_, _)
apply_filters(schedules, flt) ==
    IF flt.routingType = <<>> \/ schedules = <<>> THEN schedules
    ELSE IF RoutingLower(Head(schedules).routingType) = Casefold(flt.routingType)
    THEN <<Head(schedules)>> \o apply_filters(Tail(schedules), flt)
    ELSE apply_filters(Tail(schedules), flt)

\* the place of a timestamp text in string order: day and hour are two-digit
\* fields, then the suffix ("" < "+00:00" < "Z"); a text that is no timestamp
\* starts with a letter and sorts after every digit
TsRank(ts) ==
    IF Parses(ts)
    THEN <<ts.d, ts.h, IF ts.tz = "" THEN 0 ELSE IF ts.tz = "Z" THEN 2 ELSE 1>>
    ELSE <<32, 0, 0>>

\* key(a) <= key(b) under the sort field
SortLe(a, b, sort_field) ==
    IF sort_field = "transit" THEN a.transitDays <= b.transitDays
    ELSE LET x == TsRank(a.etd)
             y == TsRank(b.etd)
         IN  \/ x[1] < y[1]
             \/ x[1] = y[1] /\ x[2] < y[2]
             \/ x[1] = y[1] /\ x[2] = y[2] /\ x[3] <= y[3]

\* x put into the sorted list behind every element that is not greater
RECURSIVE SortInsert(_, _, _)
SortInsert(sorted, x, sort_field) ==
    IF sorted = <<>> THEN <<x>>
    ELSE IF SortLe(Head(sorted), x, sort_field)
    THEN <<Head(sorted)>> \o SortInsert(Tail(sorted), x, sort_field)
    ELSE <<x>> \o sorted

\* _apply_sorting: sorted() is stable
RECURSIVE apply_sorting(_, _)
apply_sorting(schedules, sort_field) ==
    IF schedules = <<>> THEN <<>>
    ELSE SortInsert(apply_sorting(SubSeq(schedules, 1, Len(schedules) - 1), sort_field),
                    schedules[Len(schedules)], sort_field)

\* sorted_schedules[start_idx:end_idx]
Slice(sorted, start_idx, end_idx) ==
    LET last == IF end_idx < Len(sorted) THEN end_idx ELSE Len(sorted)
    IN  IF start_idx >= last THEN <<>> ELSE SubSeq(sorted, start_idx + 1, last)

\* list() from the fetched data to its return
ListResult(data, flt, page, from_port, to_port) ==
    LET schedules == map_itineraries_to_schedules(data, from_port, to_port)
        sorted_schedules == apply_sorting(apply_filters(schedules, flt),
                                          IF flt.sort # "" THEN flt.sort ELSE "etd")
        start_idx == (page.page - 1) * page.pageSize
    IN  [kind  |-> "ok",
         items |-> Slice(sorted_schedules, start_idx, start_idx + page.pageSize),
         meta  |-> [total |-> Len(sorted_schedules), page |-> page.page,
                    pageSize |-> page.pageSize]]

\* a list() whose port lookup raised instead of giving up quietly
PortNotFoundRaises(page) == ValueError

\* "except ValueError: return [], page" for origin and destination
PortNotFound(page) == [kind |-> "ok", items |-> <<>>, meta |-> page]

\* the two except clauses that close list()
ListRaise(e) ==
    IF IsSearoutesError(e) THEN e
    ELSE SearoutesError([unexpected |-> e.type])

(***************************************************************************)
(* Routes (routes/schedules.py 39-44 and 90-344)                           *)
(***************************************************************************)
\* str.upper on one character
UpCharAll(c) == IF c = "á" THEN "Á" ELSE UpChar(c)

\* re.sub(r"[\s\-]", "", value).upper()
RECURSIVE normalize_locode_scac(_)
normalize_locode_scac(value) ==
    IF value = <<>> THEN <<>>
    ELSE IF IsSpace(Head(value)) \/ Head(value) = "-"
    THEN normalize_locode_scac(Tail(value))
    ELSE <<UpCharAll(Head(value))>> \o normalize_locode_scac(Tail(value))

T_HTTP_5 == T_HTTP_ \o <<"5">>

\* the status the three except clauses of list_schedules choose
ErrorStatus(e) ==
    IF e.type = "SearoutesRateLimitError" THEN 429
    ELSE IF e.type = "SearoutesAPIError"
    THEN IF e.code # <<>> /\ IsSubstring(T_HTTP_5, e.code) THEN 502 ELSE 400
    ELSE 502

\* meta.total: a Page handed back as it came in was built without a total
PageTotal(meta) == IF "total" \in DOMAIN meta THEN [n |-> meta.total] ELSE [unset |-> TRUE]

\* list_schedules from provider.list() on: the envelope, or the HTTPException
\* carrying e.to_dict()
JsonResponse(r) ==
    IF r.kind = "ok"
    THEN [status |-> 200, kind |-> "json",
          body |-> [items |-> r.items, total |-> PageTotal(r.meta),
                    page |-> r.meta.page, pageSize |-> r.meta.pageSize]]
    ELSE [status |-> ErrorStatus(r), kind |-> "error", detail |-> to_dict(r)]

\* the exports call provider.list() outside any try: the file, or the
\* framework's plain 500 for the exception that escapes the handler
ExportResponse(r) ==
    IF r.kind = "ok"
    THEN [status |-> 200, kind |-> "file", rows |-> r.items]
    ELSE [status |-> 500, kind |-> "unhandled"]

\* a list() that resolves the destination before the origin
NextStageDestinationFirst(flt, after) ==
    IF after = "start" /\ flt.destination # <<>> THEN "destination"
    ELSE IF after \in {"start", "destination"} /\ flt.origin # <<>> THEN "origin"
    ELSE IF flt.carrier # <<>> THEN "carrier"
    ELSE "fetch"

\* the stage of list() that follows the given one: a falsy filter field
\* skips its lookup
NextStage(flt, after) ==
    IF after = "start" /\ flt.origin # <<>> THEN "origin"
    ELSE IF after \in {"start", "origin"} /\ flt.destination # <<>> THEN "destination"
    ELSE IF after \in {"start", "origin", "destination"} /\ flt.carrier # <<>> THEN "carrier"
    ELSE "fetch"

(***************************************************************************)
(* Upstream behaviours and calls the service is given                      *)
(***************************************************************************)
MaxCalls == 3

MaxTicks == 2

\* how far the clock moves between two calls
TickSteps == {1, 299}

Ok(body) == Reply(200, NoHeaders, body)

R_429 == Reply(429, "retry-after" :> T_2, EmptyList)

R_400 == Reply(400, "x-request-id" :> T_Ab, [shape |-> "dict", d |-> [message |-> T_Po]])

R_500 == Reply(500, NoHeaders, [shape |-> "dict", d |-> [error |-> T_Po]])

R_Err == [kind |-> "RequestError"]

\* the same failing reply to every attempt of one request
Exhausted(reply) == [i \in 1..(max_retries + 1) |-> reply]

FailedRuns == {Exhausted(R_429), <<R_400>>, Exhausted(R_500), Exhausted(R_Err)}

\* an upstream that answers at once, answers after one 500, or fails
RunsFor(bodies, retried) ==
    {<<Ok(b)>> : b \in bodies} \cup {<<R_500, Ok(retried)>>} \cup FailedRuns

Port_1 == [name |-> T_Ab, code |-> T_EGALY]

Port_2 == [name |-> T_PortAb, code |-> T_eg_aly, size |-> [n |-> 2]]

PortBodies ==
    { EmptyList,
      [shape |-> "list", items |-> <<Port_1>>],
      [shape |-> "dict", d |-> [results |-> <<Port_2, Port_1>>]],
      [shape |-> "dict", d |-> Port_1],
      [shape |-> "list", items |-> <<[name |-> T_Cab], [name |-> T_CabAccent]>>],
      [shape |-> "dict", d |-> [message |-> T_Po]] }

\* an upstream that fails in a different way on every attempt and drops the
\* connection on the last
MixedRun == <<R_500, R_429, R_429, R_Err>>

PortRuns == RunsFor(PortBodies, [shape |-> "list", items |-> <<Port_1>>]) \cup {MixedRun}

Carrier_1 == [name |-> T_Ab, code |-> T_AB]

CarrierBodies ==
    { EmptyList,
      [shape |-> "list", items |-> <<Carrier_1>>],
      [shape |-> "dict", d |-> [name |-> T_Cab]],
      [shape |-> "list", items |-> <<[name |-> T_Cab], [name |-> T_CabAccent]>>],
      [shape |-> "list", items |-> <<[name |-> T_Ab, code |-> T_EG],
                                     [name |-> T_Cab, code |-> T_AB]>>] }

CarrierRuns == RunsFor(CarrierBodies, [shape |-> "list", items |-> <<Carrier_1>>])

Itin_Direct == [legs |-> <<Leg_Good>>]

Itin_TwoLegs == [legs |-> <<Leg_Good, Leg_Good>>, transitDays |-> [n |-> 7]]

Itin_Late == [segments |-> <<[etd |-> Ts_22_12, eta |-> Ts_23_00_naive, vessel |-> T_AB]>>,
              transitDays |-> [n |-> 1]]

FetchBodies ==
    { EmptyList,
      [shape |-> "list", items |-> <<Itin_TwoLegs, Itin_Direct>>],
      [shape |-> "dict", d |-> [results |-> <<Itin_Late, Itin_Direct>>]] }

FetchRuns == RunsFor(FetchBodies, EmptyList)

PortQueries == {T_eg_aly, T_Ab, T_AB}

CarrierQueries == {T_Ab, T_AB}

T_date == <<"2","0","2","5","-","0","8","-","2","0">>

\* routingType, sort, page, pageSize, from of the incoming requests
QueryTails ==
    { [routingType |-> <<>>, sort |-> "etd", page |-> 1, pageSize |-> 50, date_from |-> <<>>],
      [routingType |-> T_direct, sort |-> "transit", page |-> 2, pageSize |-> 1,
       date_from |-> T_date],
      [routingType |-> <<"T">> \o Tail(T_transshipment), sort |-> "etd", page |-> 1,
       pageSize |-> 1, date_from |-> <<>>] }

\* GET /api/schedules, /api/schedules.csv and /api/schedules.xlsx
HttpRequests ==
    { [fn |-> "http", route |-> route, origin |-> o, destination |-> d, carrier |-> c,
       routingType |-> t.routingType, sort |-> t.sort, page |-> t.page,
       pageSize |-> t.pageSize, date_from |-> t.date_from] :
        route \in {"json", "csv", "xlsx"}, o \in {<<>>, T_eg_aly, T_Ab},
        d \in {<<>>, T_EGALY}, c \in {<<>>, T_AB}, t \in QueryTails }

(***************************************************************************)
(* The service: routes, list(), resolve_port, resolve_carrier              *)
(*                                                                         *)
(* One action is the code between two upstream requests: it makes the      *)
(* request pc names, through _make_request, and runs on to the next        *)
(* request or to the end of the call.                                      *)
(***************************************************************************)
Stay(vs) == UNCHANGED <<vs, rankVars, mapVars, reqVars>>

\* the route handler up to provider.list(): only /api/schedules normalizes
Route ==
    /\ pc = "route"
    /\ LET json == call.route = "json"
           flt  == [origin      |-> IF json THEN normalize_locode_scac(call.origin)
                                    ELSE call.origin,
                    destination |-> IF json THEN normalize_locode_scac(call.destination)
                                    ELSE call.destination,
                    carrier     |-> IF json THEN normalize_locode_scac(call.carrier)
                                    ELSE call.carrier,
                    date_from   |-> call.date_from,
                    date_to     |-> <<>>,
                    routingType |-> call.routingType,
                    sort        |-> call.sort]
           page == IF json THEN [page |-> call.page, pageSize |-> call.pageSize]
                   ELSE [page |-> 1, pageSize |-> 10000]
       IN  /\ call' = [fn |-> "list", route |-> call.route, flt |-> flt, page |-> page]
           /\ pc' = NextStage(flt, "start")
    /\ Stay(<<now, carrier_cache, ls_origin_port, ls_destination_port, ls_carrier_scac,
              log, ret, http, prev, calls, ticks>>)

\* whose lookup a port stage is
Side(stage) ==
    IF stage \in {"origin", "origin_fallback"} THEN "origin"
    ELSE IF stage \in {"destination", "destination_fallback"} THEN "destination"
    ELSE "direct"

\* the port_query argument of the resolve_port in progress
PortQuery ==
    IF Side(pc) = "origin" THEN call.flt.origin
    ELSE IF Side(pc) = "destination" THEN call.flt.destination
    ELSE call.q

\* resolve_port ends with res: its direct caller gets it; list() keeps the
\* port, turns not-found into an empty page, or raises
PortReturn(side, res) ==
    IF call.fn = "resolve_port"
    THEN /\ ret' = res
         /\ pc' = "idle"
         /\ UNCHANGED <<ls_origin_port, ls_destination_port>>
    ELSE IF res.kind = "ok"
    THEN /\ ls_origin_port' = IF side = "origin" THEN res.value ELSE ls_origin_port
         /\ ls_destination_port' = IF side = "destination" THEN res.value
                                   ELSE ls_destination_port
         /\ pc' = NextStage(call.flt, side)
         /\ UNCHANGED ret
    ELSE /\ ret' = IF res.type = "ValueError" THEN PortNotFound(call.page)
                   ELSE ListRaise(res)
         /\ pc' = "respond"
         /\ UNCHANGED <<ls_origin_port, ls_destination_port>>

\* resolve_port up to the fallback: the first search and, unless the
\* fallback is due, ranking and return
PortSearch ==
    /\ pc \in {"origin", "destination", "port"}
    /\ \E run \in PortRuns :
        LET port_query == PortQuery
            is_locode_query == IsLocodeQuery(UpperAlnum(port_query))
            st == make_request(run)
            ports_list == IF st.out.kind = "response"
                          THEN SearchResults(st.out.body, PortSingleKeys) ELSE <<>>
        IN  /\ log' = Append(log, LogEntry(pc, "/geocoding/v2/port",
                                            PortParams(port_query), st))
            /\ now' = now + Elapsed(st.slept)
            /\ IF st.out.kind = "exc" THEN PortReturn(Side(pc), st.out)
               ELSE IF ports_list = <<>> /\ is_locode_query
               THEN /\ pc' = IF pc = "port" THEN "port_fallback"
                             ELSE IF pc = "origin" THEN "origin_fallback"
                             ELSE "destination_fallback"
                    /\ UNCHANGED <<ls_origin_port, ls_destination_port, ret>>
               ELSE PortReturn(Side(pc), PortFinish(ports_list, port_query, is_locode_query))
    /\ Stay(<<carrier_cache, call, ls_carrier_scac, http, prev, calls, ticks>>)

\* resolve_port from the fallback on: the name search inside try/except,
\* then ranking and return
PortFallback ==
    /\ pc \in {"origin_fallback", "destination_fallback", "port_fallback"}
    /\ \E run \in PortRuns :
        LET port_query == PortQuery
            st == make_request(run)
            ports_list == IF st.out.kind = "response"
                          THEN FallbackResults(st.out.body) ELSE <<>>
        IN  /\ log' = Append(log, LogEntry(pc, "/geocoding/v2/port",
                                            [query |-> port_query], st))
            /\ now' = now + Elapsed(st.slept)
            /\ PortReturn(Side(pc), PortFinish(ports_list, port_query, TRUE))
    /\ Stay(<<carrier_cache, call, ls_carrier_scac, http, prev, calls, ticks>>)

\* the scac_or_name argument of the resolve_carrier in progress
CarrierQuery == IF call.fn = "list" THEN call.flt.carrier ELSE call.q

\* resolve_carrier ends with res: its direct caller gets it; list() keeps
\* the SCAC, goes on without one on not-found, or raises
CarrierReturn(res) ==
    IF call.fn = "resolve_carrier"
    THEN /\ ret' = res
         /\ pc' = "idle"
         /\ UNCHANGED ls_carrier_scac
    ELSE IF res.kind = "ok"
    THEN /\ ls_carrier_scac' = res.value.scac
         /\ pc' = "fetch"
         /\ UNCHANGED ret
    ELSE IF res.type = "ValueError"
    THEN /\ pc' = "fetch"
         /\ UNCHANGED <<ls_carrier_scac, ret>>
    ELSE /\ ret' = ListRaise(res)
         /\ pc' = "respond"
         /\ UNCHANGED ls_carrier_scac

\* resolve_carrier answered from the cache
CarrierCacheHit ==
    /\ pc = "carrier"
    /\ LET cache_key == ascii_norm(CarrierQuery)
       IN  /\ cache_key \in DOMAIN carrier_cache
           /\ CacheFresh(now, carrier_cache[cache_key].time)
           /\ CarrierReturn([kind |-> "ok", value |-> carrier_cache[cache_key].result])
    /\ Stay(<<now, carrier_cache, call, ls_origin_port, ls_destination_port, log, http,
              prev, calls, ticks>>)

\* resolve_carrier on a miss or an expired entry: delete, search, rank, store
CarrierSearch ==
    /\ pc = "carrier"
    /\ LET scac_or_name == CarrierQuery
           cache_key == ascii_norm(scac_or_name)
           current_time == now
           is_scac_query == IsScacQuery(UpperAlnum(scac_or_name))
           purged == CacheWithout(carrier_cache, cache_key)
       IN  /\ ~(/\ cache_key \in DOMAIN carrier_cache
                /\ CacheFresh(current_time, carrier_cache[cache_key].time))
           /\ \E run \in CarrierRuns :
               LET st == make_request(run)
                   res == IF st.out.kind = "exc" THEN st.out
                          ELSE CarrierFinish(SearchResults(st.out.body, CarrierSingleKeys),
                                             scac_or_name, is_scac_query)
               IN  /\ log' = Append(log, LogEntry(pc, "/search/v2/carriers",
                                                   [query |-> scac_or_name], st))
                   /\ now' = now + Elapsed(st.slept)
                   /\ carrier_cache' = IF res.kind = "ok"
                                       THEN CachePut(purged, cache_key, res.value,
                                                     current_time)
                                       ELSE purged
                   /\ CarrierReturn(res)
    /\ Stay(<<call, ls_origin_port, ls_destination_port, http, prev, calls, ticks>>)

\* list() from step 3 on: the itinerary fetch, mapping, filter, sort, page
Fetch ==
    /\ pc = "fetch"
    /\ \E run \in FetchRuns :
        LET st == make_request(run)
            params == FetchParams(call.flt, ls_origin_port, ls_destination_port,
                                  ls_carrier_scac)
        IN  /\ log' = Append(log, LogEntry(pc, "/itinerary/v2/execution", params, st))
            /\ now' = now + Elapsed(st.slept)
            /\ ret' = IF st.out.kind = "exc" THEN ListRaise(st.out)
                      ELSE ListResult(st.out.body, call.flt, call.page,
                                      ls_origin_port, ls_destination_port)
            /\ pc' = "respond"
    /\ Stay(<<carrier_cache, call, ls_origin_port, ls_destination_port, ls_carrier_scac,
              http, prev, calls, ticks>>)

\* the route handler after provider.list()
Respond ==
    /\ pc = "respond"
    /\ http' = IF call.route = "json" THEN JsonResponse(ret) ELSE ExportResponse(ret)
    /\ pc' = "idle"
    /\ Stay(<<now, carrier_cache, call, ls_origin_port, ls_destination_port,
              ls_carrier_scac, log, ret, prev, calls, ticks>>)

\* the call just served, as the next call will remember it
Served == [call |-> call, log |-> log, ret |-> ret]

\* a caller invokes provider.resolve_port(q)
CallResolvePort ==
    /\ pc = "idle"
    /\ calls < MaxCalls
    /\ \E q \in PortQueries :
           call' = [fn |-> "resolve_port", q |-> q, at |-> now, entry |-> NoEntry]
    /\ pc' = "port"
    /\ prev' = Served
    /\ log' = <<>>
    /\ ret' = NotRun
    /\ calls' = calls + 1
    /\ Stay(<<now, carrier_cache, ls_origin_port, ls_destination_port, ls_carrier_scac,
              http, ticks>>)

\* a caller invokes provider.resolve_carrier(q); entry is what the cache
\* holds for q at that moment
CallResolveCarrier ==
    /\ pc = "idle"
    /\ calls < MaxCalls
    /\ \E q \in CarrierQueries :
           call' = [fn |-> "resolve_carrier", q |-> q, at |-> now,
                    entry |-> CacheEntry(carrier_cache, ascii_norm(q))]
    /\ pc' = "carrier"
    /\ prev' = Served
    /\ log' = <<>>
    /\ ret' = NotRun
    /\ calls' = calls + 1
    /\ Stay(<<now, carrier_cache, ls_origin_port, ls_destination_port, ls_carrier_scac,
              http, ticks>>)

\* time passes while the provider serves nothing
Tick ==
    /\ pc = "idle"
    /\ ticks < MaxTicks
    /\ \E d \in TickSteps : now' = now + d
    /\ ticks' = ticks + 1
    /\ Stay(<<carrier_cache, call, pc, ls_origin_port, ls_destination_port,
              ls_carrier_scac, log, ret, http, prev, calls>>)

RestIdle == RankIdle /\ MapIdle /\ ReqIdle

\* the cache after an earlier request resolved the carrier "AB" at time 0
WarmCache ==
    CachePut(EmptyCache, ascii_norm(T_AB), CarrierFinish(<<Carrier_1>>, T_AB, TRUE).value, 0)

\* a provider, fresh or with that carrier cached, and one incoming HTTP request
Init ==
    /\ RestIdle
    /\ now = 0
    /\ carrier_cache \in {EmptyCache, WarmCache}
    /\ call \in HttpRequests
    /\ pc = "route"
    /\ ls_origin_port = NoPort
    /\ ls_destination_port = NoPort
    /\ ls_carrier_scac = <<>>
    /\ log = <<>>
    /\ ret = NotRun
    /\ http = NotRun
    /\ prev = NoPrev
    /\ calls = 0
    /\ ticks = 0

Next == Route \/ PortSearch \/ PortFallback \/ CarrierCacheHit \/ CarrierSearch
        \/ Fetch \/ Respond

Spec == Init /\ [][Next]_vars

\* a fresh provider whose resolve_port is called directly, call after call
PortInit == RestIdle /\ SvcIdle

PortNext == CallResolvePort \/ PortSearch \/ PortFallback

SpecPort == PortInit /\ [][PortNext]_vars

\* a fresh provider whose resolve_carrier is called directly while time passes
CarrierInit == RestIdle /\ SvcIdle

CarrierNext == CallResolveCarrier \/ CarrierCacheHit \/ CarrierSearch \/ Tick

SpecCarrier == CarrierInit /\ [][CarrierNext]_vars

(***************************************************************************)
(* Two resolve_carrier calls on one provider (main.py 12-40 hands the one  *)
(* schedule_provider to every request; the handlers are plain def, which   *)
(* the framework runs on a pool of threads).  Each thread takes the steps  *)
(* of searoutes.py 436-484 one at a time; pc, ret and the locals kept in   *)
(* call are per thread.                                                    *)
(***************************************************************************)
Threads == {1, 2}

\* del d[k] and d[k] of a key that is not there
KeyError == [kind |-> "exc", type |-> "KeyError", status |-> 0, code |-> <<>>,
             message |-> [missing_key |-> TRUE], request_id |-> <<>>]

NoLocals == [fn |-> "none"]

\* a provider, fresh or with the carrier "AB" cached at time 0, at a moment
\* when that entry is fresh or has just expired, and two threads about to
\* call resolve_carrier
RaceInit ==
    /\ RestIdle
    /\ now \in {0, 300}
    /\ carrier_cache \in {EmptyCache, WarmCache}
    /\ call = [fn |-> "threads", th |-> [t \in Threads |-> NoLocals]]
    /\ pc = [t \in Threads |-> "idle"]
    /\ ls_origin_port = NoPort
    /\ ls_destination_port = NoPort
    /\ ls_carrier_scac = <<>>
    /\ log = <<>>
    /\ ret = [t \in Threads |-> NotRun]
    /\ http = NotRun
    /\ prev = NoPrev
    /\ calls = 0
    /\ ticks = 0

\* thread t ends its call with res
RaceReturn(t, res) ==
    /\ ret' = [ret EXCEPT ![t] = res]
    /\ pc' = [pc EXCEPT ![t] = "done"]

RaceStay == Stay(<<ls_origin_port, ls_destination_port, ls_carrier_scac, http, prev,
                   calls, ticks>>)

\* cache_key = _ascii_norm(scac_or_name); current_time = time.time()
RaceCall ==
    /\ \E t \in Threads, q \in CarrierQueries :
        /\ pc[t] = "idle"
        /\ call' = [call EXCEPT !.th[t] = [fn |-> "resolve_carrier", q |-> q,
                                           cache_key |-> ascii_norm(q),
                                           current_time |-> now]]
        /\ pc' = [pc EXCEPT ![t] = "test"]
    /\ UNCHANGED <<now, carrier_cache, log, ret>>
    /\ RaceStay

\* if cache_key in self._carrier_cache
RaceTest ==
    /\ \E t \in Threads :
        /\ pc[t] = "test"
        /\ pc' = [pc EXCEPT ![t] = IF call.th[t].cache_key \in DOMAIN carrier_cache
                                    THEN "read" ELSE "search"]
    /\ UNCHANGED <<now, carrier_cache, call, log, ret>>
    /\ RaceStay

\* cached_result, cached_time = self._carrier_cache[cache_key] and the test
\* of its age
RaceRead ==
    /\ \E t \in Threads :
        /\ pc[t] = "read"
        /\ LET me == call.th[t]
           IN  IF me.cache_key \notin DOMAIN carrier_cache THEN RaceReturn(t, KeyError)
               ELSE IF CacheFresh(me.current_time, carrier_cache[me.cache_key].time)
               THEN RaceReturn(t, [kind |-> "ok",
                                   value |-> carrier_cache[me.cache_key].result])
               ELSE /\ pc' = [pc EXCEPT ![t] = "delete"]
                    /\ UNCHANGED ret
    /\ UNCHANGED <<now, carrier_cache, call, log>>
    /\ RaceStay

\* del self._carrier_cache[cache_key]
RaceDelete ==
    /\ \E t \in Threads :
        /\ pc[t] = "delete"
        /\ LET me == call.th[t]
           IN  IF me.cache_key \notin DOMAIN carrier_cache
               THEN /\ RaceReturn(t, KeyError)
                    /\ UNCHANGED carrier_cache
               ELSE /\ carrier_cache' = CacheWithout(carrier_cache, me.cache_key)
                    /\ pc' = [pc EXCEPT ![t] = "search"]
                    /\ UNCHANGED ret
    /\ UNCHANGED <<now, call, log>>
    /\ RaceStay

\* the upstream search, the ranking and the result built from the best
RaceSearch ==
    /\ \E t \in Threads, run \in CarrierRuns :
        /\ pc[t] = "search"
        /\ LET me == call.th[t]
               st == make_request(run)
               res == IF st.out.kind = "exc" THEN st.out
                      ELSE CarrierFinish(SearchResults(st.out.body, CarrierSingleKeys),
                                         me.q, IsScacQuery(UpperAlnum(me.q)))
           IN  /\ log' = Append(log, LogEntry(t, "/search/v2/carriers", [query |-> me.q], st))
               /\ now' = now + Elapsed(st.slept)
               /\ IF res.kind = "ok"
                  THEN /\ call' = [call EXCEPT !.th[t] = [me EXCEPT !.fn = "resolved"] @@
                                                         [result |-> res.value]]
                       /\ pc' = [pc EXCEPT ![t] = "insert"]
                       /\ UNCHANGED ret
                  ELSE /\ RaceReturn(t, res)
                       /\ UNCHANGED call
    /\ UNCHANGED carrier_cache
    /\ RaceStay

\* self._carrier_cache[cache_key] = (result, current_time); return result
RaceInsert ==
    /\ \E t \in Threads :
        /\ pc[t] = "insert"
        /\ LET me == call.th[t]
           IN  /\ carrier_cache' = CachePut(carrier_cache, me.cache_key, me.result,
                                            me.current_time)
               /\ RaceReturn(t, [kind |-> "ok", value |-> me.result])
    /\ UNCHANGED <<now, call, log>>
    /\ RaceStay

RaceNext == RaceCall \/ RaceTest \/ RaceRead \/ RaceDelete \/ RaceSearch \/ RaceInsert

SpecRace == RaceInit /\ [][RaceNext]_vars

\* queries of every form: with and without separators, with digits, with
\* an accented letter, too short and too long for a code
DetectQueries ==
    { T_eg_aly, T_EGALY, T_Ab, T_AB, T_Po, T_PortAb, T_CabAccent,
      <<"e","g","1","2","3">>, <<"1","2","a","b","c">>, <<"A","b","-","1">>,
      <<"A">>, <<"a","b"," ","c","d","e">>, <<>> }

MaxDetectCalls == 1

\* a caller invokes resolve_port(q) or resolve_carrier(q) with any such query
CallDetect ==
    /\ pc = "idle"
    /\ calls < MaxDetectCalls
    /\ \E q \in DetectQueries, fn \in {"resolve_port", "resolve_carrier"} :
           /\ call' = [fn |-> fn, q |-> q, at |-> now,
                       entry |-> IF fn = "resolve_carrier"
                                 THEN CacheEntry(carrier_cache, ascii_norm(q))
                                 ELSE NoEntry]
           /\ pc' = IF fn = "resolve_port" THEN "port" ELSE "carrier"
    /\ prev' = Served
    /\ log' = <<>>
    /\ ret' = NotRun
    /\ calls' = calls + 1
    /\ Stay(<<now, carrier_cache, ls_origin_port, ls_destination_port, ls_carrier_scac,
              http, ticks>>)

\* a provider, fresh or with the carrier "AB" cached, whose resolvers are
\* called directly
DetectInit ==
    /\ RestIdle
    /\ now = 0
    /\ carrier_cache \in {EmptyCache, WarmCache}
    /\ call = NotRun
    /\ pc = "idle"
    /\ ls_origin_port = NoPort
    /\ ls_destination_port = NoPort
    /\ ls_carrier_scac = <<>>
    /\ log = <<>>
    /\ ret = NotRun
    /\ http = NotRun
    /\ prev = NoPrev
    /\ calls = 0
    /\ ticks = 0

DetectNext == CallDetect \/ PortSearch \/ PortFallback \/ CarrierCacheHit \/ CarrierSearch

SpecDetect == DetectInit /\ [][DetectNext]_vars

(***************************************************************************)
(* Ranker claims                                                           *)
(***************************************************************************)
RankRan == rk_out.fn # "none"

RankIdx == 1..Len(rk_cands)

\* C1: for a non-empty candidate list and a code-form query, when exactly one
\* candidate's extracted code equals the query's code form, the ranker
\* (_rank_ports and _rank_carriers alike) returns that candidate, whatever
\* the sizes and names of the others.
C1_UniqueExactCodeReturned ==
    (RankRan /\ rk_flag /\ rk_cands # <<>>) =>
        \A i \in RankIdx :
            ( /\ rk_out.rows[i].feat.exact_code
              /\ \A j \in RankIdx \ {i} : ~rk_out.rows[j].feat.exact_code )
            => rk_out.res = [kind |-> "ok", value |-> rk_cands[i]]

\* the order in which each ladder tries the features
LadderOrder(code_leading) ==
    IF code_leading
    THEN <<"exact_code", "exact_name", "startswith", "contains">>
    ELSE <<"exact_name", "startswith", "contains", "exact_code">>

\* 4 for the first feature of the order that holds, 3 for the second, ...
LadderScore(f, code_leading) ==
    LET ord  == LadderOrder(code_leading)
        hits == {k \in 1..4 : f[ord[k]]}
    IN  IF hits = {} THEN 0
        ELSE 5 - (CHOOSE k \in hits : \A m \in hits : k <= m)

\* C2: every candidate's score follows the ladder of the query's kind
\* (code-leading: exactCode 4, exactName 3, startswith 2, contains 1;
\* name-leading: exactName 4, startswith 3, contains 2, exactCode 1; else 0)
\* and a returned candidate has the maximum score of the list.
C2_ScoreFollowsLadder ==
    RankRan =>
        /\ \A i \in RankIdx :
               rk_out.rows[i].score = LadderScore(rk_out.rows[i].feat, rk_flag)
        /\ rk_out.res.kind = "ok" =>
               \E i \in RankIdx :
                   /\ rk_cands[i] = rk_out.res.value
                   /\ \A j \in RankIdx : rk_out.rows[j].score <= rk_out.rows[i].score

\* a name-leading ranking in which a code-only match (score 1) is returned
\* ahead of a candidate that matches nothing
C2_Witness ==
    /\ RankRan
    /\ ~rk_flag
    /\ rk_out.res.kind = "ok"
    /\ \E i, j \in RankIdx :
           /\ rk_out.rows[i].score = 1
           /\ rk_out.rows[j].score = 0
           /\ rk_cands[i] = rk_out.res.value

\* the candidates the port tie-break selects: maximum score, then largest
\* size, then alphabetically first normalized name
PortTop ==
    LET rows == rk_out.rows
        M == {i \in RankIdx : \A j \in RankIdx : rows[j].score <= rows[i].score}
        S == {i \in M : \A j \in M : rows[j].key[2] >= rows[i].key[2]}
    IN  {i \in S : \A j \in S : ~StrLt(rows[j].key[3], rows[i].key[3])}

\* C3: among the port candidates sharing the maximum score _rank_ports
\* returns one with the largest size and, among those of equal size, the
\* one whose normalized name is alphabetically first.
C3_PortTieBreak ==
    (rk_out.fn = "ports" /\ rk_cands # <<>>) =>
        /\ rk_out.res.kind = "ok"
        /\ \E i \in PortTop : rk_cands[i] = rk_out.res.value

\* C17: a code-form port query written with dashes or spaces resolves like
\* its compact form: for such a query q and any candidate list,
\* _rank_ports(candidates, q, code-form) returns the same candidate as
\* _rank_ports(candidates, alnum_only(q), code-form).
C17_DashedCodeQueryRanksAlike ==
    ( /\ rk_out.fn = "ports"
      /\ rk_flag
      /\ IsLocodeQuery(UpperAlnum(rk_query))
      /\ rk_out.res.kind = "ok"
      /\ rank_ports(rk_cands, alnum_only(rk_query), TRUE).kind = "ok" )
    => rk_out.res = rank_ports(rk_cands, alnum_only(rk_query), TRUE)

\* C21: given an empty candidate list, _rank_ports and _rank_carriers return
\* the empty result ({}) for every query and either value of the code-form
\* flag, and never raise.
C21_EmptyListGivesEmpty ==
    (RankRan /\ rk_cands = <<>>) =>
        /\ rk_out.res = RankEmpty
        /\ rk_out.rows = <<>>

\* _rank_ports called with no candidate, a non-empty query and the code-form
\* flag set
C21_Witness ==
    /\ rk_out.fn = "ports"
    /\ rk_cands = <<>>
    /\ rk_query = T_eg_aly
    /\ rk_flag
    /\ rk_out.res = RankEmpty

\* the candidates of maximum score whose normalized name is alphabetically
\* first among them
CarrierTop ==
    LET rows == rk_out.rows
        M == {i \in RankIdx : \A j \in RankIdx : rows[j].score <= rows[i].score}
    IN  {i \in M : \A j \in M : ~StrLt(SortName(carrier_name(rk_cands[j])),
                                         SortName(carrier_name(rk_cands[i])))}

\* C22: carrier ranking uses no size tiebreak: among the carrier candidates
\* that share the maximum score, _rank_carriers returns the one whose
\* normalized name is alphabetically first, whatever size-like fields the
\* records carry.
C22_CarrierTieBreakByName ==
    (rk_out.fn = "carriers" /\ rk_cands # <<>>) =>
        /\ rk_out.res.kind = "ok"
        /\ \E i \in CarrierTop : rk_cands[i] = rk_out.res.value

\* the name without the first listed noise prefix it starts with, removed
\* once
StrippedOnce(s) ==
    LET hits == {k \in 1..Len(PORT_NOISE_PREFIXES) :
                    /\ Len(PORT_NOISE_PREFIXES[k]) <= Len(s)
                    /\ SubSeq(s, 1, Len(PORT_NOISE_PREFIXES[k])) = PORT_NOISE_PREFIXES[k]}
    IN  IF hits = {} THEN s
        ELSE LET first == CHOOSE k \in hits : \A m \in hits : k <= m
             IN  SubSeq(s, Len(PORT_NOISE_PREFIXES[first]) + 1, Len(s))

\* the stripped normalized name of candidate i starts with the normalized
\* query
StartsAfterStrip(i) ==
    LET n == StrippedOnce(ascii_norm(port_name(rk_cands[i])))
        q == ascii_norm(rk_query)
    IN  Len(q) <= Len(n) /\ SubSeq(n, 1, Len(q)) = q

\* C23: noise-prefix stripping feeds the port startswith feature.
\* strip_port_noise removes the first listed prefix the normalized name
\* starts with, once and without recursion, so for a name-leading query a
\* port whose stripped name starts with the query outranks every competitor
\* that matches only by contains, even one of larger size.
C23_NoiseStripFeedsStartswith ==
    (rk_out.fn = "ports" /\ ~rk_flag) =>
        /\ \A i \in RankIdx : rk_out.rows[i].feat.startswith = StartsAfterStrip(i)
        /\ \A i, j \in RankIdx :
               ( /\ StartsAfterStrip(i)
                 /\ ~StartsAfterStrip(j)
                 /\ ~rk_out.rows[j].feat.exact_name
                 /\ rk_out.rows[j].feat.contains )
               => /\ KeyLt(rk_out.rows[i].key, rk_out.rows[j].key)
                  /\ rk_out.res.kind = "ok" => rk_out.res.value # rk_cands[j]

\* "Port Ab", found by the query "Ab" once "port " is stripped, returned
\* ahead of the larger "Port of Port Ab", which only contains the query
\* after its one stripping
C23_Witness ==
    /\ rk_out.fn = "ports"
    /\ ~rk_flag
    /\ rk_query = T_Ab
    /\ rk_cands = <<[name |-> T_PortOfPortAb, size |-> [n |-> 2]],
                    [name |-> T_PortAb, code |-> T_AB]>>
    /\ rk_out.rows[1].score = 2
    /\ rk_out.rows[2].score = 3
    /\ rk_out.res = [kind |-> "ok", value |-> [name |-> T_PortAb, code |-> T_AB]]

\* C27: the Ranker is total on non-empty input.  For every non-empty
\* candidate list and every query, lists where two distinct candidates tie
\* on score, size and normalized name included, _rank_ports and
\* _rank_carriers return one of the input candidates and do not raise.
C27_RankerTotal ==
    (RankRan /\ rk_out.fn \in {"ports", "carriers"} /\ rk_cands # <<>>) =>
        /\ rk_out.res.kind = "ok"
        /\ \E i \in RankIdx : rk_cands[i] = rk_out.res.value

(***************************************************************************)
(* Field Extractor claims                                                  *)
(***************************************************************************)
\* the value of the alias a, "attributes.k" being the nested one
AliasValue(p, a) ==
    IF a \in {"attributes.name", "attributes.locode"}
    THEN IF "attributes" \in DOMAIN p
         THEN p["attributes"][IF a = "attributes.name" THEN "name" ELSE "locode"]
         ELSE <<>>
    ELSE IF a \in DOMAIN p THEN p[a] ELSE <<>>

\* the value of the first of the aliases whose value is not empty, the empty
\* text when there is none
FirstAlias(p, aliases) ==
    LET hits == {i \in 1..Len(aliases) : AliasValue(p, aliases[i]) # <<>>}
    IN  IF hits = {} THEN <<>>
        ELSE AliasValue(p, aliases[CHOOSE i \in hits : \A j \in hits : i <= j])

\* C25: each canonical field is the value under the first alias, in the
\* fixed probing order (the nested attributes.name and attributes.locode
\* being the last alias of the names and of the locode), whose value is not
\* empty, a value of one key and never a combination, and the empty text
\* when no alias has a value; the port size is the integer value of size,
\* and 0 when size is absent or not numeric.
C25_FirstAliasWins ==
    LET p == rk_cands[1]
    IN  /\ rk_out.fn = "port_fields" =>
              /\ rk_out.name = FirstAlias(p, <<"displayName", "name", "portName",
                                                "shortName", "attributes.name">>)
              /\ rk_out.locode = FirstAlias(p, <<"locode", "unLocode", "code", "unlocode",
                                                  "attributes.locode">>)
              /\ rk_out.country = FirstAlias(p, <<"countryCode", "country", "countryName",
                                                   "country_code">>)
              /\ rk_out.size = IF "size" \in DOMAIN p /\ "n" \in DOMAIN p["size"]
                                THEN p["size"].n ELSE 0
        /\ rk_out.fn = "carrier_fields" =>
              /\ rk_out.name = FirstAlias(p, <<"displayName", "name", "shortName",
                                                "legalName", "carrierName", "companyName",
                                                "attributes.name">>)
              /\ rk_out.scac = FirstAlias(p, <<"scac", "scacCode", "code">>)
              /\ rk_out.id = FirstAlias(p, <<"id", "carrierId", "companyId">>)

\* a port record with an empty locode, an unLocode and a code: the locode
\* is the unLocode
C25_Witness ==
    /\ rk_out.fn = "port_fields"
    /\ rk_cands = <<[locode |-> <<>>, unLocode |-> T_Cab, code |-> T_Po]>>
    /\ rk_out.locode = T_Cab
    /\ rk_out.name = <<>>

(***************************************************************************)
(* Itinerary Mapper claims                                                 *)
(***************************************************************************)
MapRan == mp_out.fn # "none"

\* C10: for every Schedule the mapper produces, routingType is "Direct"
\* exactly when the upstream itinerary has one leg, and then no legs are
\* attached; with two or more legs routingType is "Transshipment" and legs
\* is attached, holding the itinerary's legs in their original order.
C10_RoutingTypeAndLegs ==
    MapRan =>
        \A i \in 1..Len(mp_out.outcomes) :
            mp_out.outcomes[i].kind = "schedule" =>
                LET s    == mp_out.outcomes[i].s
                    legs == LegsData(Itineraries(mp_data)[i])
                IN  /\ (s.routingType = "Direct") = (Len(legs) = 1)
                    /\ Len(legs) = 1 => s.legs = NoLegs
                    /\ Len(legs) >= 2 =>
                           /\ s.routingType = "Transshipment"
                           /\ s.legs # NoLegs
                           /\ Len(s.legs) = Len(legs)
                           /\ \A k \in 1..Len(legs) :
                                  /\ s.legs[k].legNumber = k
                                  /\ s.legs[k].etd = LegEtd(legs[k])
                                  /\ s.legs[k].eta = LegEta(legs[k])

\* C11: transitDays of every Schedule the mapper produces, and of every
\* ScheduleLeg attached to it, is never negative, whatever transitDays the
\* upstream gives and whatever the two timestamps are, eta earlier than etd
\* included.
C11_TransitDaysNeverNegative ==
    MapRan =>
        \A i \in 1..Len(mp_out.schedules) :
            LET s == mp_out.schedules[i]
            IN  /\ s.transitDays >= 0
                /\ s.legs # NoLegs =>
                       \A k \in 1..Len(s.legs) : s.legs[k].transitDays >= 0

\* an itinerary the mapper can turn into a Schedule: an object with at least
\* one leg, whose first leg has a departure and whose last leg an arrival
\* timestamp, and whose transitDays, when given, is a number
ValidItinerary(it) ==
    /\ IsDict(it)
    /\ LegsData(it) # <<>>
    /\ IsDict(LegsData(it)[1])
    /\ IsDict(LegsData(it)[Len(LegsData(it))])
    /\ LegEtd(LegsData(it)[1]) # NoTs
    /\ LegEta(LegsData(it)[Len(LegsData(it))]) # NoTs
    /\ "transitDays" \in DOMAIN it => "n" \in DOMAIN it.transitDays

\* the valid itineraries of a batch, in input order
RECURSIVE ValidOnes(_)
ValidOnes(its) ==
    IF its = <<>> THEN <<>>
    ELSE IF ValidItinerary(Head(its)) THEN <<Head(its)>> \o ValidOnes(Tail(its))
    ELSE ValidOnes(Tail(its))

\* C18: batch isolation.  An itinerary with zero legs, with no departure
\* timestamp on its first leg or no arrival timestamp on its last leg yields
\* no Schedule, and a failure while mapping one itinerary or one leg never
\* aborts the batch: the output holds one Schedule for every valid itinerary
\* of the batch, in input order.
C18_BatchIsolation ==
    MapRan =>
        LET valid == ValidOnes(Itineraries(mp_data))
        IN  /\ Len(mp_out.schedules) = Len(valid)
            /\ \A k \in 1..Len(valid) :
                   LET legs == LegsData(valid[k])
                       s    == mp_out.schedules[k]
                   IN  /\ s.etd = LegEtd(legs[1])
                       /\ s.eta = LegEta(legs[Len(legs)])
                       /\ "id" \in DOMAIN valid[k] => s.id = valid[k].id
                       /\ s.legs # NoLegs =>
                              \A j \in 1..Len(s.legs) :
                                  /\ s.legs[j].legNumber \in 1..Len(legs)
                                  /\ IsDict(legs[s.legs[j].legNumber])

\* a batch whose first itinerary raised while the second, one of whose three
\* legs failed, was mapped
C18_Witness ==
    /\ MapRan
    /\ Len(mp_out.outcomes) = 2
    /\ mp_out.outcomes[1].kind = "raised"
    /\ mp_out.outcomes[2].kind = "schedule"
    /\ Len(LegsData(Itineraries(mp_data)[2])) = 3
    /\ mp_out.outcomes[2].s.legs # NoLegs
    /\ Len(mp_out.outcomes[2].s.legs) = 2
    /\ Len(mp_out.schedules) = 1

\* the transitDays the rule gives: the upstream value when present and
\* truthy; else the least whole number of days that covers eta - etd when
\* both timestamps are there and parse; else 0.  (0 as well when one
\* timestamp carries an offset and the other does not: the two cannot be
\* subtracted.)
RuleTransit(r, etd, eta) ==
    IF "transitDays" \in DOMAIN r /\ "n" \in DOMAIN r.transitDays /\ r.transitDays.n # 0
    THEN r.transitDays.n
    ELSE IF etd = NoTs \/ eta = NoTs \/ "d" \notin DOMAIN etd \/ "d" \notin DOMAIN eta
    THEN 0
    ELSE IF (etd.tz = "") # (eta.tz = "") THEN 0
    ELSE LET secs == (eta.d * 86400 + eta.h * 3600) - (etd.d * 86400 + etd.h * 3600)
         IN  CHOOSE k \in -31..31 : k * 86400 >= secs /\ (k - 1) * 86400 < secs

RequestFailing(reply) ==
    reply.kind = "RequestError" \/ reply.status = 429 \/ reply.status >= 500

\* C5 (as stated): with the default settings _make_request issues at most 3
\* upstream attempts for one request, whatever mix of 429, 5xx and transport
\* failures it receives, and then raises a typed failure.
C5_AtMostThreeAttempts ==
    rq.fn = "make_request" =>
        /\ rq.calls <= 3
        /\ (rq.calls = 3 /\ \A i \in 1..3 : RequestFailing(rq.seen[i]))
               => rq.out.kind = "exc"

\* C5 (amended): with the default settings _make_request issues at most 4
\* upstream attempts for one request (the first and max_retries = 3 retries),
\* whatever mix of 429, 5xx and transport failures it receives; a failing
\* reply is retried while fewer than 4 attempts were made, and the fourth
\* failing reply raises an error of the SearoutesError family without a
\* further wait.
C5_AtMostFourAttempts ==
    rq.fn = "make_request" =>
        /\ rq.calls <= 4
        /\ rq.calls = Len(rq.seen)
        /\ Len(rq.slept) < 4
        /\ (rq.calls < 4 /\ rq.calls > 0 /\ RequestFailing(rq.seen[rq.calls]))
               => rq.out = Pending
        /\ (rq.calls = 4 /\ RequestFailing(rq.seen[4]))
               => /\ rq.out.kind = "exc"
                  /\ rq.out.type \in {"SearoutesRateLimitError", "SearoutesAPIError",
                                      "SearoutesError"}

\* a request that met a 429, a 5xx and a transport failure, made its fourth
\* attempt and gave up
C5_Witness ==
    /\ rq.fn = "make_request"
    /\ rq.calls = 4
    /\ rq.out.kind = "exc"
    /\ \E i, j, k \in 1..4 :
           /\ rq.seen[i].kind = "RequestError"
           /\ rq.seen[j].kind = "response" /\ rq.seen[j].status = 429
           /\ rq.seen[k].kind = "response" /\ rq.seen[k].status >= 500

(***************************************************************************)
(* Resolver claims                                                         *)
(***************************************************************************)
\* a response with a 4xx status other than 429
ClientError(reply) ==
    reply.kind = "response" /\ reply.status \in 400..499 /\ reply.status # 429

\* the request id a response shows: the first of the four headers that is
\* set, else the first of the three body fields
ShownId(reply) ==
    LET hs == <<"x-request-id", "request-id", "x-correlation-id", "correlation-id">>
        bs == <<"requestId", "request_id", "correlationId">>
        hset == {k \in 1..Len(hs) : HeaderGet(reply.headers, hs[k]) # <<>>}
        bset == IF reply.body.shape = "dict"
                THEN {k \in 1..Len(bs) : Get(reply.body.d, bs[k]) # <<>>}
                ELSE {}
    IN  IF hset # {} THEN HeaderGet(reply.headers, hs[CHOOSE k \in hset : \A m \in hset : k <= m])
        ELSE IF bset # {} THEN Get(reply.body.d, bs[CHOOSE k \in bset : \A m \in bset : k <= m])
        ELSE <<>>

ExpectedWait(reply, i) ==
    LET h == IF "retry-after" \in DOMAIN reply.headers THEN reply.headers["retry-after"]
             ELSE <<>>
    IN  IF reply.status = 429 /\ h # <<>> /\ \A k \in 1..Len(h) : h[k] \in DigitSet
        THEN [whole |-> ToInt(h), jitter |-> FALSE]
        ELSE [whole |-> 2 ^ (i - 1), jitter |-> TRUE]

\* C14: a 429 received on an attempt that is not the last allowed one makes
\* _make_request wait and retry, the wait being the retry-after header value
\* when it is numeric and otherwise the backoff 2^attempt plus jitter; a 5xx
\* on such an attempt is retried after the backoff delay.
C14_WaitBeforeRetry ==
    rq.fn = "make_request" =>
        \A i \in 1..Len(rq.seen) :
            ( /\ rq.seen[i].kind = "response"
              /\ rq.seen[i].status = 429 \/ rq.seen[i].status >= 500
              /\ i <= max_retries )
            => /\ Len(rq.slept) >= i
               /\ rq.slept[i] = ExpectedWait(rq.seen[i], i)
               /\ rq.attempt >= i
               /\ Len(rq.seen) = i => rq.out = Pending

\* a 429 with retry-after 2, a 429 without the header and a 500 have been
\* waited for 2, 2 + jitter and 4 + jitter seconds
C14_Witness ==
    /\ rq.fn = "make_request"
    /\ Len(rq.seen) = 3
    /\ \A i \in 1..3 : rq.seen[i].kind = "response"
    /\ rq.seen[1].status = 429 /\ HeaderGet(rq.seen[1].headers, "retry-after") = T_2
    /\ rq.seen[2].status = 429 /\ HeaderGet(rq.seen[2].headers, "retry-after") = <<>>
    /\ rq.seen[3].status = 500
    /\ rq.slept = <<[whole |-> 2, jitter |-> FALSE],
                    [whole |-> 2, jitter |-> TRUE],
                    [whole |-> 4, jitter |-> TRUE]>>
    /\ rq.out = Pending

\* a 2xx or 3xx response
Success(reply) == reply.kind = "response" /\ reply.status < 400

\* _make_request has returned or raised
RequestOver == rq.fn = "make_request" /\ rq.out # Pending

\* C15: whatever the upstream answers attempt after attempt (success, 429,
\* another 4xx, 5xx, transport failure), a _make_request call eventually
\* terminates: it returns the first successful response or raises one of its
\* typed errors, and once it has returned or raised it issues no further
\* upstream call.
C15_RequestTerminates ==
    /\ <>RequestOver
    /\ [](RequestOver =>
            /\ \A i \in 1..(Len(rq.seen) - 1) : ~Success(rq.seen[i])
            /\ IF Success(rq.seen[Len(rq.seen)])
               THEN rq.out = [kind |-> "response", body |-> rq.seen[Len(rq.seen)].body]
               ELSE rq.out.kind = "exc" /\ IsSearoutesError(rq.out))
    /\ [][RequestOver => rq' = rq]_vars

\* a request that returned the response of its fourth attempt
C15_Witness ==
    /\ RequestOver
    /\ rq.calls = max_retries + 1
    /\ rq.out.kind = "response"
    /\ \E i \in 1..3 : rq.seen[i].kind = "RequestError"
    /\ \E i \in 1..3 : rq.seen[i].kind = "response" /\ rq.seen[i].status = 429

T_UnknownPort ==
    <<"U","n","k","n","o","w","n"," ","o","r","i","g","i","n","/","d","e",
      "s","t","i","n","a","t","i","o","n"," ","p","o","r","t">>

T_CarrierNotFound ==
    <<"C","a","r","r","i","e","r"," ","n","o","t"," ","f","o","u","n","d">>

T_NoRoutes ==
    <<"N","o"," ","r","o","u","t","e","s"," ","f","o","u","n","d"," ","f",
      "o","r"," ","t","h","e"," ","s","p","e","c","i","f","i","e","d",
      " ","c","r","i","t","e","r","i","a">>

\* the message the error codes of the upstream stand for
FriendlyCodes ==
    (T_3110 :> T_UnknownPort) @@ (T_1071 :> T_CarrierNotFound)
        @@ (T_1072 :> T_CarrierNotFound) @@ (T_1110 :> T_NoRoutes)

\* the reply that ended the request
LastReply == rq.seen[Len(rq.seen)]

\* C24: friendly error mapping.  For an upstream error body with a code
\* field the message of the raised error is "Unknown origin/destination
\* port" for code 3110, "Carrier not found" for 1071 and 1072, "No routes
\* found for the specified criteria" for 1110, and the upstream message for
\* every other code.
C24_FriendlyErrorMapping ==
    ( /\ rq.fn = "make_request"
      /\ rq.out.kind = "exc"
      /\ rq.out.type = "SearoutesAPIError"
      /\ LastReply.body.shape = "dict"
      /\ "code" \in DOMAIN LastReply.body.d )
    => LET code == LastReply.body.d.code
       IN  rq.out.message =
               IF code \in DOMAIN FriendlyCodes THEN [text |-> FriendlyCodes[code]]
               ELSE [text |-> LastReply.body.d.message]

PortCallDone == pc = "idle" /\ call.fn = "resolve_port"

\* the candidates a logged port search brought back
FirstCandidates(entry) ==
    IF entry.out.kind = "response" THEN SearchResults(entry.out.body, PortSingleKeys)
    ELSE <<>>

SecondCandidates(entry) ==
    IF entry.out.kind = "response" THEN FallbackResults(entry.out.body) ELSE <<>>

\* the Port made of a candidate
PortOf(p) == [name |-> port_name(p), locode |-> port_locode(p), country |-> port_country(p)]

\* C4: resolve_port request protocol.  A code-form query makes the first
\* search request with {locode: code}, any other query with {query: text};
\* exactly when that first response yields no candidates and the query was
\* code-form, one further search request is made, with {query: original}, and
\* never for a non-code-form query; with still no candidates the call fails
\* with not-found, otherwise it returns the ranked best candidate.
C4_PortRequestProtocol ==
    PortCallDone =>
        LET q     == call.q
            code  == IsLocodeQuery(UpperAlnum(q))
            final == IF Len(log) = 2 THEN SecondCandidates(log[2])
                     ELSE FirstCandidates(log[1])
        IN  /\ Len(log) \in 1..2
            /\ \A i \in 1..Len(log) : log[i].endpoint = "/geocoding/v2/port"
            /\ log[1].params = IF code THEN [locode |-> UpperAlnum(q)] ELSE [query |-> q]
            /\ Len(log) = 2 <=> /\ code
                                /\ log[1].out.kind = "response"
                                /\ FirstCandidates(log[1]) = <<>>
            /\ Len(log) = 2 => log[2].params = [query |-> q]
            /\ log[1].out.kind = "response" =>
                   IF final = <<>> THEN ret = ValueError
                   ELSE /\ ret.kind = "ok"
                        /\ \E i \in 1..Len(final) :
                               /\ ret.value = PortOf(final[i])
                               /\ \A j \in 1..Len(final) :
                                      PortExtractOf(final[j], q, code).score
                                          <= PortExtractOf(final[i], q, code).score

\* C6: after a successful resolve_port(q), a second resolve_port whose query
\* normalizes to the same key, made before any time has passed (so within
\* any port TTL), returns the same Port without an upstream request.
C6_PortCacheHit ==
    ( /\ PortCallDone
      /\ prev.call.fn = "resolve_port"
      /\ prev.ret.kind = "ok"
      /\ ascii_norm(prev.call.q) = ascii_norm(call.q)
      /\ call.at = prev.call.at )
    => /\ log = <<>>
       /\ ret = prev.ret

\* the reply to the last client.get of a logged request
LastSeen(entry) == entry.seen[Len(entry.seen)]

C16_EnvelopeNormalized ==
    (PortCallDone /\ log # <<>> /\ log[Len(log)].out.kind = "response") =>
        LET body == log[Len(log)].out.body
            code == IsLocodeQuery(UpperAlnum(call.q))
        IN  /\ ret = PortFinish(SearchResults(body, PortSingleKeys), call.q, code)
            /\ (body.shape = "dict" /\ DOMAIN body.d \cap PortSingleKeys # {}) =>
                   ret # ValueError

CarrierCallDone == pc = "idle" /\ call.fn = "resolve_carrier"

ListAnswered == call.fn = "list" /\ pc = "idle"

\* C8: every upstream failure raised by an upstream call made while serving
\* a schedules request (port search, code-form fallback search, carrier
\* search, itinerary fetch) is answered at the request boundary with a
\* structured error payload carrying that failure's machine-readable code,
\* for /api/schedules and for the CSV and XLSX exports alike.
C8_UpstreamFailureReachesBoundary ==
    ListAnswered =>
        \A i \in 1..Len(log) :
            log[i].out.kind = "exc" =>
                /\ http.kind = "error"
                /\ http.detail.code = to_dict(log[i].out).code

\* the resolve_port of the given side ended with no candidate
PortZero(side) ==
    \E i \in 1..Len(log) :
        /\ log[i].stage = side
        /\ log[i].out.kind = "response"
        /\ FirstCandidates(log[i]) = <<>>
        /\ (i < Len(log) /\ Side(log[i + 1].stage) = side)
               => SecondCandidates(log[i + 1]) = <<>>

\* the resolve_carrier of the request ended with no candidate
CarrierZero ==
    \E i \in 1..Len(log) :
        /\ log[i].stage = "carrier"
        /\ log[i].out.kind = "response"
        /\ SearchResults(log[i].out.body, CarrierSingleKeys) = <<>>

\* C9: when origin or destination resolution finds zero candidates, list()
\* returns an empty result set and raises nothing; when carrier resolution
\* finds zero candidates, list() goes on and fetches itineraries with no
\* carrierScac parameter.
C9_NotFoundAbsorbed ==
    (call.fn = "list" /\ pc \in {"respond", "idle"}) =>
        /\ (PortZero("origin") \/ PortZero("destination")) =>
               /\ ret.kind = "ok"
               /\ ret.items = <<>>
        /\ CarrierZero =>
               \E i \in 1..Len(log) :
                   /\ log[i].endpoint = "/itinerary/v2/execution"
                   /\ "carrierScac" \notin DOMAIN log[i].params

\* a request whose origin resolved and whose destination search, fallback
\* included, found nothing
C9_Witness ==
    /\ ListAnswered
    /\ ls_origin_port # NoPort
    /\ PortZero("destination")
    /\ \E i \in 1..Len(log) : log[i].stage = "destination_fallback"
    /\ ret.kind = "ok"
    /\ ret.items = <<>>
    /\ http.status = 200

\* the filtered, sorted list of all schedules the request matches: those
\* mapped from the fetched itineraries, or none when nothing was fetched
Matching ==
    LET fetched == {i \in 1..Len(log) : /\ log[i].endpoint = "/itinerary/v2/execution"
                                        /\ log[i].out.kind = "response"}
    IN  IF fetched = {} THEN <<>>
        ELSE apply_sorting(
                 apply_filters(
                     map_itineraries_to_schedules(log[CHOOSE i \in fetched : TRUE].out.body,
                                                  ls_origin_port, ls_destination_port),
                     call.flt),
                 call.flt.sort)

\* C20: listing envelope.  For every filter and page the listing returns
\* (items, total): total is the count of all schedules matching the filter,
\* whatever page is asked for, and items are the entries at positions
\* (page-1)*pageSize .. page*pageSize-1 of the filtered, sorted list; when
\* port resolution finds nothing, items is empty and total is 0.
C20_ListingEnvelope ==
    (ListAnswered /\ ret.kind = "ok") =>
        LET start == (call.page.page - 1) * call.page.pageSize
            rest  == Len(Matching) - start
            n     == IF rest <= 0 THEN 0
                     ELSE IF rest < call.page.pageSize THEN rest ELSE call.page.pageSize
        IN  /\ "total" \in DOMAIN ret.meta
            /\ ret.meta.total = Len(Matching)
            /\ ret.items = [k \in 1..n |-> Matching[start + k]]
            /\ (PortZero("origin") \/ PortZero("destination")) =>
                   ret.items = <<>> /\ ret.meta.total = 0
\* the letters and digits of the query, in order
AlnumForm(q) == SelectSeq(q, IsAlnum)

IsLetter(c) == c \in LowerSet \cup UpperSet

\* 2 letters followed by 3 letters or digits
PortCodeForm(q) ==
    /\ Len(AlnumForm(q)) = 5
    /\ IsLetter(AlnumForm(q)[1]) /\ IsLetter(AlnumForm(q)[2])

\* 2 to 4 letters or digits
CarrierCodeForm(q) == Len(AlnumForm(q)) \in 2..4

\* C26: query-is-code detection is purely syntactic.  A port query is
\* code-form exactly when its letters and digits, uppercased, are 2 letters
\* followed by 3 letters or digits, a carrier query exactly when they are 2
\* to 4 letters or digits; the first port search carries the locode
\* parameter exactly for a code-form query, and the resolver returns what
\* the Ranker picks when given that very flag.
C26_CodeFormIsSyntactic ==
    /\ (PortCallDone /\ log # <<>>) =>
          /\ ("locode" \in DOMAIN log[1].params) <=> PortCodeForm(call.q)
          /\ log[1].out.kind = "response" =>
                ret = PortFinish(IF Len(log) = 2 THEN SecondCandidates(log[2])
                                 ELSE FirstCandidates(log[1]),
                                 call.q, PortCodeForm(call.q))
    /\ (CarrierCallDone /\ Len(log) = 1 /\ log[1].out.kind = "response") =>
          ret = CarrierFinish(SearchResults(log[1].out.body, CarrierSingleKeys),
                              call.q, CarrierCodeForm(call.q))

\* the query "Ab" has the form of a SCAC: of the carriers Ab (code EG) and
\* Cab (code AB) the resolver returns Cab, the one a code-leading ranking
\* picks and a name-leading ranking does not
C26_Witness ==
    /\ CarrierCallDone
    /\ call.q = T_Ab
    /\ Len(log) = 1
    /\ log[1].out.kind = "response"
    /\ ret.kind = "ok"
    /\ ret.value.name = T_Cab
    /\ ret # CarrierFinish(SearchResults(log[1].out.body, CarrierSingleKeys), call.q, FALSE)

\* C28: two resolve_carrier calls for the same key, interleaved step by
\* step on the shared cache.  Neither call fails because of the cache
\* itself, in particular not by deleting an expired entry the other call
\* already removed, and once both have finished with a Carrier the cache
\* holds the entry for the key, its value a Carrier one of them resolved.
C28_ConcurrentCallsAreSafe ==
    call.fn = "threads" =>
        /\ \A t \in Threads : ret[t] # KeyError
        /\ (\A t \in Threads : pc[t] = "done" /\ ret[t].kind = "ok") =>
              \A t \in Threads :
                  /\ call.th[t].cache_key \in DOMAIN carrier_cache
                  /\ \E u \in Threads :
                        carrier_cache[call.th[t].cache_key].result = ret[u].value

\* a resolve_carrier call ends in this step, and it fails
CarrierCallFails == pc = "carrier" /\ call.fn = "resolve_carrier" /\ pc' = "idle" /\ ret'.kind # "ok"

\* C29: a resolve_carrier call that fails, on zero candidates or on an
\* upstream error from the Request Client, leaves the carrier cache exactly
\* as it was before the call: no entry is added, changed or removed.
C29_FailedCallLeavesCache ==
    [][CarrierCallFails => carrier_cache' = carrier_cache]_vars

\* C29 as amended: a resolve_carrier call that fails adds no entry and
\* changes none; it removes the entry of its own key when that entry had
\* expired (the expiry check deletes it before the upstream is asked), and
\* removes nothing else.
C29_FailedCallOnlyPurges ==
    [][CarrierCallFails =>
          LET key == ascii_norm(call.q)
              expired == /\ key \in DOMAIN carrier_cache
                         /\ now - carrier_cache[key].time >= 300
          IN  /\ DOMAIN carrier_cache' = DOMAIN carrier_cache \ (IF expired THEN {key} ELSE {})
              /\ \A k \in DOMAIN carrier_cache' : carrier_cache'[k] = carrier_cache[k]]_vars

\* a call that found the entry of its key expired, asked the upstream and
\* failed: the entry is gone
C29_Witness ==
    /\ CarrierCallDone
    /\ ret.kind = "exc"
    /\ Len(log) = 1
    /\ call.entry # NoEntry
    /\ call.at - call.entry.time >= 300
    /\ ascii_norm(call.q) \notin DOMAIN carrier_cache

\* the place of an upstream request in the order of list()
StageRank ==
    [origin |-> 1, origin_fallback |-> 2, destination |-> 3, destination_fallback |-> 4,
     carrier |-> 5, fetch |-> 6]

\* the port resolution that made request i ended with it, and found nothing
NotFoundAt(i) ==
    \/ /\ log[i].stage \in {"origin", "destination"}
       /\ "query" \in DOMAIN log[i].params
       /\ log[i].out.kind = "response"
       /\ FirstCandidates(log[i]) = <<>>
    \/ /\ log[i].stage \in {"origin_fallback", "destination_fallback"}
       /\ SecondCandidates(log[i]) = <<>>

\* C30: within one list() call the upstream requests are issued in the
\* order origin port search, destination port search, carrier search,
\* itinerary fetch, each after the previous one has completed; once the
\* origin or destination resolution ends in not-found no later upstream
\* request is issued in that call, and the itinerary fetch never happens.
C30_RequestOrder ==
    call.fn = "list" =>
        /\ \A i \in 1..Len(log) :
              /\ log[i].stage \in DOMAIN StageRank
              /\ log[i].out.kind \in {"response", "exc"}
              /\ (log[i].stage = "fetch") = (log[i].endpoint = "/itinerary/v2/execution")
              /\ NotFoundAt(i) => i = Len(log) /\ pc \in {"respond", "idle"}
        /\ \A i, j \in 1..Len(log) :
              i < j => StageRank[log[i].stage] < StageRank[log[j].stage]

\* a request with origin, destination and carrier: the origin is found, the
\* destination is not, and the call is over after those two searches
C30_Witness ==
    /\ ListAnswered
    /\ call.flt.carrier # <<>>
    /\ Len(log) >= 2
    /\ log[1].stage = "origin"
    /\ Side(log[Len(log)].stage) = "destination"
    /\ NotFoundAt(Len(log))
    /\ ret = PortNotFound(call.page)

====
